---- MODULE Spec2Model ----
(***************************************************************************)
(* A model of webflow-cms-uploader.                                        *)
(*                                                                         *)
(* The HTML sanitizer (src/lib/sanitize.ts): the URL safety validator      *)
(* isSafeUrl, the tree-based sanitizer sanitizeHtmlDOM / sanitizeNode, the *)
(* text-based sanitizer sanitizeHtmlRegex and the facade sanitizeHtml.     *)
(* Spec and SpecDOM run it on markup built as a tree, SpecTotal on markup  *)
(* with malformed URLs, SpecText on markup written as text, SpecUrl runs   *)
(* isSafeUrl alone.                                                        *)
(*                                                                         *)
(* The server: the middleware with its rate limiter (middleware.ts), the   *)
(* sessions and credentials (src/lib/auth.ts), the login route             *)
(* (src/app/api/auth/login/route.ts), the configuration route              *)
(* (src/app/api/config/route.ts) and the publish route                     *)
(* (src/app/api/publish/route.ts). Each module keeps its own Map; the      *)
(* specifications SpecRate, SpecLogin, SpecSession, SpecCredentials and    *)
(* SpecPublish run the handlers of one module against their clients.       *)
(*                                                                         *)
(* Strings are TLA+ strings; a character is a string of length 1. The      *)
(* credentials are sequences of UTF-16 code units. Time is in ms.          *)
(***************************************************************************)
EXTENDS Integers, Sequences, FiniteSets, Bags, TLC

VARIABLES
    pc,         \* position of the caller: "start", "done", "again"
    url,        \* isSafeUrl: the argument
    safe,       \* isSafeUrl: the returned value (FALSE before the call)
    tree,       \* sanitizeHtml: child nodes of doc.body as parsed from html
    html,       \* sanitizeHtml: the argument, the markup of tree
    hasWindow,  \* sanitizeHtml: typeof window !== 'undefined'
    out,        \* sanitizeHtml: the returned string ("" before the call)
    body,       \* sanitizeHtmlDOM: child nodes of doc.body after sanitizeNode
    out2,       \* sanitizeHtml applied to out ("" before the call)
    threw,      \* sanitizeHtml: TRUE when a call ended with an exception
    now,        \* Date.now(), in milliseconds
    ticks,      \* how often the clock has been advanced
    env,        \* process.env: the variables the server reads
    rateLimitStore, \* middleware: rateLimitStore, key -> entry
    loginAttempts,  \* login route: loginAttempts, ip -> entry
    sessions,   \* auth: sessions, token -> session
    inflight,   \* login route: the requests between checkLoginAttempts
                \* and validateCredentials
    response,   \* the response to the request handled last
    sent,       \* publish route: the requests sent to Webflow
    passed,     \* history: ip -> the times at which the middleware let a
                \* request of ip through
    failed,     \* history: ip -> the times at which a login of ip was
                \* answered "Invalid credentials"
    issued      \* history: token -> the time of its createSession

urlVars == <<url, safe>>
htmlVars == <<tree, html, hasWindow, out, body, out2, threw>>
serverVars == <<now, ticks, env, rateLimitStore, loginAttempts, sessions,
                inflight, response, sent, passed, failed, issued>>
vars == <<pc, urlVars, htmlVars, serverVars>>

----------------------------------------------------------------------------
(* Strings *)

\* s[i] of JavaScript (1-based here); "" outside the string
Ch(s, i) == IF i >= 1 /\ i <= Len(s) THEN SubSeq(s, i, i) ELSE ""

\* s.substring(i - 1), 1-based
From(s, i) == IF i > Len(s) THEN "" ELSE SubSeq(s, i, Len(s))

\* s.startsWith(p, i - 1), 1-based
StartsWithAt(s, i, p) ==
    /\ i >= 1
    /\ i + Len(p) - 1 <= Len(s)
    /\ SubSeq(s, i, i + Len(p) - 1) = p

\* s.startsWith(p)
StartsWith(s, p) == StartsWithAt(s, 1, p)

UpperLetters ==
    <<"A","B","C","D","E","F","G","H","I","J","K","L","M",
      "N","O","P","Q","R","S","T","U","V","W","X","Y","Z">>
LowerLetters ==
    <<"a","b","c","d","e","f","g","h","i","j","k","l","m",
      "n","o","p","q","r","s","t","u","v","w","x","y","z">>
Digits == {"0","1","2","3","4","5","6","7","8","9"}
Alpha == {UpperLetters[k] : k \in 1..26} \cup {LowerLetters[k] : k \in 1..26}

LowerOf == [c \in {UpperLetters[k] : k \in 1..26} |->
              LowerLetters[CHOOSE k \in 1..26 : UpperLetters[k] = c]]

LowerCh(c) == IF c \in DOMAIN LowerOf THEN LowerOf[c] ELSE c

RECURSIVE toLowerCase(_)
\* String.prototype.toLowerCase on ASCII
toLowerCase(s) ==
    IF s = "" THEN "" ELSE LowerCh(Ch(s, 1)) \o toLowerCase(Tail(s))

Min(S) == CHOOSE x \in S : \A y \in S : x <= y

\* the least j >= i with Ch(s, j) not in set (Len(s) + 1 when there is none)
SkipIn(s, i, set) ==
    IF i > Len(s) \/ Ch(s, i) \notin set THEN i
    ELSE Min({j \in (i + 1)..(Len(s) + 1) : Ch(s, j) \notin set})

\* the least j >= i with Ch(s, j) in set (Len(s) + 1 when there is none)
SkipNotIn(s, i, set) ==
    IF i > Len(s) \/ Ch(s, i) \in set THEN i
    ELSE Min({j \in (i + 1)..(Len(s) + 1) : j = Len(s) + 1 \/ Ch(s, j) \in set})

\* the literal p (lower case) at i, compared case-insensitively
MatchCI(s, i, p) ==
    /\ i >= 1
    /\ i + Len(p) - 1 <= Len(s)
    /\ LowerCh(Ch(s, i)) = Ch(p, 1)
    /\ toLowerCase(SubSeq(s, i, i + Len(p) - 1)) = p

\* the least j >= i where p occurs in s, case-insensitively when ci
\* (0 when there is none); p is given in lower case when ci
IndexOf(s, i, p, ci) ==
    LET at == {j \in i..(Len(s) - Len(p) + 1) :
                  IF ci THEN MatchCI(s, j, p) ELSE StartsWithAt(s, j, p)}
    IN  IF at = {} THEN 0 ELSE Min(at)

\* s.includes(p)
Includes(s, p) == IndexOf(s, 1, p, FALSE) > 0

----------------------------------------------------------------------------
(* new URL(url) with no base: the WHATWG basic URL parser as far as it    *)
(* decides between a TypeError and a parsed URL, and the parsed scheme.   *)
(* Modelled for the code points of UrlFrags: no '@', '?', '\', '[', '%'   *)
(* and no digits in an authority; the scheme file: is not modelled.       *)

Whitespace == {" ", "\t", "\n", "\r"}
TabOrNewline == {"\t", "\n", "\r"}
SpecialSchemes == {"http", "https", "ftp", "ws", "wss"}
ForbiddenHostChars == {" ", "<", ">", "^", "|"}

\* leading and trailing C0 control or space are removed
RECURSIVE TrimEnd(_)
TrimEnd(s) ==
    IF s # "" /\ Ch(s, Len(s)) \in Whitespace
    THEN TrimEnd(SubSeq(s, 1, Len(s) - 1)) ELSE s

TrimStart(s) == From(s, SkipIn(s, 1, Whitespace))

\* ASCII tab and newline are removed everywhere
RECURSIVE RemoveTabNewline(_)
RemoveTabNewline(s) ==
    IF s = "" THEN ""
    ELSE (IF Ch(s, 1) \in TabOrNewline THEN "" ELSE Ch(s, 1))
         \o RemoveTabNewline(Tail(s))

\* host and port states: the authority s[i..] up to '/', '#' or the end
AuthorityOk(s, i, special) ==
    LET e == SkipNotIn(s, i, {"/", "#"})
        c == SkipNotIn(s, i, {":", "/", "#"})
        host == IF c > i THEN SubSeq(s, i, c - 1) ELSE ""
        port == IF c < e THEN (IF c + 1 <= e - 1 THEN SubSeq(s, c + 1, e - 1) ELSE "")
                ELSE ""
    IN  /\ special \/ c < e => host # ""
        /\ \A k \in 1..Len(host) : Ch(host, k) \notin ForbiddenHostChars
        /\ \A k \in 1..Len(port) : Ch(port, k) \in Digits

NoUrl == [ok |-> FALSE, protocol |-> ""]

URLParse(raw) ==
    LET s == RemoveTabNewline(TrimEnd(TrimStart(raw)))
        \* scheme start state and scheme state
        e == SkipIn(s, 1, Alpha \cup Digits \cup {"+", "-", "."})
    IN  IF Ch(s, 1) \notin Alpha \/ Ch(s, e) # ":" THEN NoUrl
        ELSE LET scheme == toLowerCase(SubSeq(s, 1, e - 1))
             IN  IF scheme \in SpecialSchemes
                 THEN \* special authority (ignore) slashes state
                      IF AuthorityOk(s, SkipIn(s, e + 1, {"/"}), TRUE)
                      THEN [ok |-> TRUE, protocol |-> scheme \o ":"]
                      ELSE NoUrl
                 ELSE IF StartsWithAt(s, e + 1, "//")
                 THEN \* path or authority state, authority state
                      IF AuthorityOk(s, e + 3, FALSE)
                      THEN [ok |-> TRUE, protocol |-> scheme \o ":"]
                      ELSE NoUrl
                 ELSE \* path state, opaque path state
                      [ok |-> TRUE, protocol |-> scheme \o ":"]

----------------------------------------------------------------------------
(* isSafeUrl *)

\* a scheme set that also lets data: through
SAFE_URL_SCHEMES_WithData == {"http:", "https:", "mailto:", "/", "data:"}

SAFE_URL_SCHEMES == {"http:", "https:", "mailto:", "/"}

\* a catch branch that compares the prefixes without regard to case
SafePrefixNoParseAnyCase(u) ==
    \/ StartsWith(toLowerCase(u), "http://")
    \/ StartsWith(toLowerCase(u), "https://")
    \/ StartsWith(toLowerCase(u), "mailto:")

\* the catch branch of isSafeUrl
SafePrefixNoParse(u) ==
    StartsWith(u, "http://") \/ StartsWith(u, "https://") \/ StartsWith(u, "mailto:")

\* the relative prefixes isSafeUrl allows before parsing
RelativePrefix(u) ==
    StartsWith(u, "/") \/ StartsWith(u, "#") \/ StartsWith(u, "./") \/ StartsWith(u, "../")

\* how a block of code ends: it returns a value or throws
Returned(v) == [threw |-> FALSE, value |-> v]
Thrown == [threw |-> TRUE, value |-> FALSE]

\* new URL(u): the parsed URL, or a TypeError
newURL(u) == IF URLParse(u).ok THEN Returned(URLParse(u)) ELSE Thrown

\* a try statement whose catch clause is missing: the exception goes on
TryWithoutCatch(tried, caught) == tried

\* try { tried } catch { caught }
TryCatch(tried, caught) == IF tried.threw THEN caught ELSE tried

\* how a call of isSafeUrl ends
isSafeUrlCall(u) ==
    TryCatch(IF RelativePrefix(u) THEN Returned(TRUE)
             ELSE LET parsed == newURL(u)
                  IN  IF parsed.threw THEN Thrown
                      ELSE Returned(parsed.value.protocol \in SAFE_URL_SCHEMES),
             Returned(SafePrefixNoParse(u)))

isSafeUrl(u) == isSafeUrlCall(u).value

----------------------------------------------------------------------------
(* The node tree of the DOM.  A node is a record; tagName is upper case   *)
(* as Element.tagName is for an HTML element, attribute names are lower   *)
(* case as the HTML parser leaves them.                                   *)

ELEMENT_NODE == 1
TEXT_NODE == 3
COMMENT_NODE == 8

Text(d) ==
    [nodeType |-> TEXT_NODE, tagName |-> "", attributes |-> <<>>,
     childNodes |-> <<>>, data |-> d]
Comment(d) ==
    [nodeType |-> COMMENT_NODE, tagName |-> "", attributes |-> <<>>,
     childNodes |-> <<>>, data |-> d]
Element(t, as, cs) ==
    [nodeType |-> ELEMENT_NODE, tagName |-> t, attributes |-> as,
     childNodes |-> cs, data |-> ""]
Attr(n, v) == [name |-> n, value |-> v]

RECURSIVE Flatten(_)
\* the concatenation of a sequence of sequences
Flatten(ss) == IF ss = <<>> THEN <<>> ELSE Head(ss) \o Flatten(Tail(ss))

----------------------------------------------------------------------------
(* Allowlist tables *)

ALLOWED_TAGS ==
    {"h1", "h2", "h3", "h4", "h5", "h6",
     "p", "br", "hr",
     "strong", "b", "em", "i", "u", "s", "strike",
     "a", "img",
     "ul", "ol", "li",
     "blockquote", "pre", "code",
     "table", "thead", "tbody", "tr", "th", "td",
     "div", "span",
     "figure", "figcaption"}

ALLOWED_ATTRIBUTES ==
    [k \in {"a", "img", "td", "th", "*"} |->
        CASE k = "a" -> {"href", "title", "target", "rel"}
          [] k = "img" -> {"src", "alt", "title", "width", "height"}
          [] k = "td" -> {"colspan", "rowspan"}
          [] k = "th" -> {"colspan", "rowspan", "scope"}
          [] k = "*" -> {"class", "id"}]

\* ALLOWED_ATTRIBUTES[tagName] || new Set()
tagAttrs(tagName) ==
    IF tagName \in DOMAIN ALLOWED_ATTRIBUTES THEN ALLOWED_ATTRIBUTES[tagName] ELSE {}

\* an allowedAttrs that leaves out the attributes allowed on every tag
allowedAttrsTagOnly(tagName) == tagAttrs(tagName)

\* the set allowedAttrs that sanitizeNode builds for an element
allowedAttrs(tagName) == tagAttrs(tagName) \cup ALLOWED_ATTRIBUTES["*"]

----------------------------------------------------------------------------
(* sanitizeNode *)

\* an attribute loop that checks the URL safety of href only
keepsAttributeHrefOnly(tagName, attr) ==
    /\ toLowerCase(attr.name) \in allowedAttrs(tagName)
    /\ ~(attr.name = "href" /\ ~isSafeUrl(attr.value))
    /\ ~Includes(toLowerCase(attr.value), "javascript:")

\* the attribute loop of sanitizeNode: TRUE when attr is left on the element
keepsAttribute(tagName, attr) ==
    /\ toLowerCase(attr.name) \in allowedAttrs(tagName)
    /\ ~((attr.name = "href" \/ attr.name = "src") /\ ~isSafeUrl(attr.value))
    /\ ~Includes(toLowerCase(attr.value), "javascript:")

\* element.setAttribute(n, v): an attribute of that name gets the value in
\* place, otherwise the attribute is appended
setAttribute(attrs, n, v) ==
    IF \E k \in 1..Len(attrs) : attrs[k].name = n
    THEN [k \in 1..Len(attrs) |->
            IF attrs[k].name = n THEN Attr(n, v) ELSE attrs[k]]
    ELSE Append(attrs, Attr(n, v))

\* the attributes of an allowed element after the attribute loop and the
\* link hardening
sanitizeAttributes(tagName, attrs) ==
    LET kept == SelectSeq(attrs, LAMBDA at : keepsAttribute(tagName, at))
    IN  IF tagName = "a" THEN setAttribute(kept, "rel", "noopener noreferrer")
        ELSE kept

RECURSIVE sanitizeNodeDropping(_)
\* a sanitizeNode whose second loop removes each member of nodesToRemove
\* together with its child nodes
sanitizeNodeDropping(childNodes) ==
    Flatten([k \in 1..Len(childNodes) |->
        LET child == childNodes[k]
            tagName == toLowerCase(child.tagName)
        IN  IF child.nodeType = ELEMENT_NODE
            THEN IF tagName \notin ALLOWED_TAGS
                 THEN <<>>
                 ELSE <<Element(child.tagName,
                                sanitizeAttributes(tagName, child.attributes),
                                sanitizeNodeDropping(child.childNodes))>>
            ELSE IF child.nodeType = COMMENT_NODE
            THEN <<>>
            ELSE <<child>>])

RECURSIVE sanitizeNodeAppending(_)
\* a sanitizeNode whose second loop puts the child nodes of a removed
\* element after the last child of the parent (appendChild) instead of
\* before the removed element
sanitizeNodeAppending(childNodes) ==
    LET stays == Flatten([k \in 1..Len(childNodes) |->
            LET child == childNodes[k]
                tagName == toLowerCase(child.tagName)
            IN  IF child.nodeType = ELEMENT_NODE
                THEN IF tagName \notin ALLOWED_TAGS
                     THEN <<>>
                     ELSE <<Element(child.tagName,
                                    sanitizeAttributes(tagName, child.attributes),
                                    sanitizeNodeAppending(child.childNodes))>>
                ELSE IF child.nodeType = COMMENT_NODE
                THEN <<>>
                ELSE <<child>>])
        moved == Flatten([k \in 1..Len(childNodes) |->
            IF childNodes[k].nodeType = TEXT_NODE THEN <<>>
            ELSE IF /\ childNodes[k].nodeType = ELEMENT_NODE
                    /\ toLowerCase(childNodes[k].tagName) \in ALLOWED_TAGS
            THEN <<>>
            ELSE childNodes[k].childNodes])
    IN  stays \o moved

RECURSIVE sanitizeNode(_)
\* sanitizeNode(node), as the child nodes of node it leaves behind.  The
\* first loop cleans and recurses into the allowed element children and
\* collects disallowed elements and comments in nodesToRemove without
\* entering them; the second loop replaces each member of nodesToRemove by
\* its own child nodes, as they are.
sanitizeNode(childNodes) ==
    Flatten([k \in 1..Len(childNodes) |->
        LET child == childNodes[k]
            tagName == toLowerCase(child.tagName)
        IN  IF child.nodeType = ELEMENT_NODE
            THEN IF tagName \notin ALLOWED_TAGS
                 THEN child.childNodes
                 ELSE <<Element(child.tagName,
                                sanitizeAttributes(tagName, child.attributes),
                                sanitizeNode(child.childNodes))>>
            ELSE IF child.nodeType = COMMENT_NODE
            THEN child.childNodes
            ELSE <<child>>])

RECURSIVE sanitizeNodeThrows(_)
\* TRUE when sanitizeNode(node) ends with an exception: a call of isSafeUrl
\* in the attribute loop of an element it visits throws
sanitizeNodeThrows(childNodes) ==
    \E k \in 1..Len(childNodes) :
        LET child == childNodes[k]
            tagName == toLowerCase(child.tagName)
        IN  /\ child.nodeType = ELEMENT_NODE
            /\ tagName \in ALLOWED_TAGS
            /\ \/ \E m \in 1..Len(child.attributes) :
                      LET attr == child.attributes[m]
                      IN  /\ toLowerCase(attr.name) \in allowedAttrs(tagName)
                          /\ attr.name = "href" \/ attr.name = "src"
                          /\ isSafeUrlCall(attr.value).threw
               \/ sanitizeNodeThrows(child.childNodes)

----------------------------------------------------------------------------
(* doc.body.innerHTML: the HTML fragment serialization of the child nodes *)

VoidElements ==
    {"area", "base", "br", "col", "embed", "hr", "img", "input", "link",
     "meta", "source", "track", "wbr"}
RawTextElements ==
    {"style", "script", "xmp", "iframe", "noembed", "noframes", "plaintext"}

RECURSIVE escapeString(_, _)
\* "escaping a string" of the serialization algorithm
escapeString(s, attributeMode) ==
    IF s = "" THEN ""
    ELSE LET c == Ch(s, 1)
         IN  (CASE c = "&" -> "&amp;"
                [] c = "\"" /\ attributeMode -> "&quot;"
                [] c = "<" /\ ~attributeMode -> "&lt;"
                [] c = ">" /\ ~attributeMode -> "&gt;"
                [] OTHER -> c)
             \o escapeString(Tail(s), attributeMode)

RECURSIVE serializeAttributes(_)
serializeAttributes(attrs) ==
    IF attrs = <<>> THEN ""
    ELSE " " \o Head(attrs).name \o "=\""
         \o escapeString(Head(attrs).value, TRUE) \o "\""
         \o serializeAttributes(Tail(attrs))

RECURSIVE innerHTML(_, _)
\* the serialization of childNodes, the child nodes of an element named
\* parentName
innerHTML(childNodes, parentName) ==
    IF childNodes = <<>> THEN ""
    ELSE LET child == Head(childNodes)
             localName == toLowerCase(child.tagName)
         IN  (CASE child.nodeType = ELEMENT_NODE ->
                     "<" \o localName \o serializeAttributes(child.attributes) \o ">"
                     \o (IF localName \in VoidElements THEN ""
                         ELSE innerHTML(child.childNodes, localName)
                              \o "</" \o localName \o ">")
                [] child.nodeType = TEXT_NODE ->
                     IF parentName \in RawTextElements THEN child.data
                     ELSE escapeString(child.data, FALSE)
                [] child.nodeType = COMMENT_NODE ->
                     "<!--" \o child.data \o "-->")
             \o innerHTML(Tail(childNodes), parentName)

\* sanitizeHtmlDOM without the serialization: the child nodes of doc.body
\* after sanitizeNode(doc.body)
sanitizeBody(childNodes) == sanitizeNode(childNodes)

\* sanitizeHtmlDOM, on the child nodes of the body that DOMParser builds
sanitizeHtmlDOM(childNodes) == innerHTML(sanitizeBody(childNodes), "body")

----------------------------------------------------------------------------
(* sanitizeHtmlRegex: String.prototype.replace with a /gi pattern.  Every *)
(* pattern below gets an operator that gives, for a start index i, the    *)
(* index after the match the backtracking matcher finds at i, 0 when the  *)
(* pattern does not match at i.                                           *)

\* \s and \w of the patterns, on ASCII
RegexSpace == {" ", "\t", "\n", "\r"}
WordChars == Alpha \cup Digits \cup {"_"}
Quotes == {"\"", "'"}

\* \b between s[j - 1] and s[j]
WordBoundary(s, j) == (Ch(s, j - 1) \in WordChars) # (Ch(s, j) \in WordChars)

\* /<name\b[^<]*(?:(?!<\/name>)<[^<]*)*<\/name>/gi: from <name to the
\* first </name> after it
BlockEnd(s, i, name) ==
    LET j == i + 1 + Len(name)
        c == IndexOf(s, j, "</" \o name \o ">", TRUE)
    IN  IF MatchCI(s, i, "<" \o name) /\ WordBoundary(s, j) /\ c > 0
        THEN c + Len(name) + 3 ELSE 0

ScriptBlockEnd(s, i) == BlockEnd(s, i, "script")
StyleBlockEnd(s, i) == BlockEnd(s, i, "style")

\* the index of the value in \s+on\w+\s*=\s*<value> matched at i, 0 when
\* the part before the value does not match
HandlerValueStart(s, i) ==
    LET k == SkipIn(s, i, RegexSpace)
        w == SkipIn(s, k + 2, WordChars)
        e == SkipIn(s, w, RegexSpace)
    IN  IF k > i /\ MatchCI(s, k, "on") /\ w > k + 2 /\ Ch(s, e) = "="
        THEN SkipIn(s, e + 1, RegexSpace) ELSE 0

\* /\s+on\w+\s*=\s*["'][^"']*["']/gi
QuotedHandlerEnd(s, i) ==
    LET q == HandlerValueStart(s, i)
        c == SkipNotIn(s, q + 1, Quotes)
    IN  IF q > 0 /\ Ch(s, q) \in Quotes /\ c <= Len(s) THEN c + 1 ELSE 0

\* /\s+on\w+\s*=\s*[^\s>]+/gi
UnquotedHandlerEnd(s, i) ==
    LET q == HandlerValueStart(s, i)
        v == SkipNotIn(s, q, RegexSpace \cup {">"})
    IN  IF q > 0 /\ v > q THEN v ELSE 0

\* /javascript\s*:/gi
JavascriptEnd(s, i) ==
    LET k == SkipIn(s, i + 10, RegexSpace)
    IN  IF MatchCI(s, i, "javascript") /\ Ch(s, k) = ":" THEN k + 1 ELSE 0

\* /data\s*:[^"'\s>]+/gi
DataEnd(s, i) ==
    LET k == SkipIn(s, i + 4, RegexSpace)
        v == SkipNotIn(s, k + 1, Quotes \cup RegexSpace \cup {">"})
    IN  IF MatchCI(s, i, "data") /\ Ch(s, k) = ":" /\ v > k + 1 THEN v ELSE 0

\* /<(n1|n2|...)\b[^>]*>/gi for the names n1, n2, ...
OpenTagEnd(s, i, names) ==
    LET hit == {n \in names : MatchCI(s, i, "<" \o n)
                              /\ WordBoundary(s, i + 1 + Len(n))}
    IN  IF hit = {} THEN 0
        ELSE LET n == CHOOSE n \in hit : TRUE
                 g == SkipNotIn(s, i + 1 + Len(n), {">"})
             IN  IF g <= Len(s) THEN g + 1 ELSE 0

\* /<\/(n1|n2|...)>/gi
CloseTagEnd(s, i, names) ==
    LET hit == {n \in names : MatchCI(s, i, "</" \o n \o ">")}
    IN  IF hit = {} THEN 0 ELSE i + Len(CHOOSE n \in hit : TRUE) + 3

EmbeddingTags == {"iframe", "object", "embed", "form", "input", "button"}

EmbeddingOpenEnd(s, i) == OpenTagEnd(s, i, EmbeddingTags)
EmbeddingCloseEnd(s, i) == CloseTagEnd(s, i, EmbeddingTags)
BaseTagEnd(s, i) == OpenTagEnd(s, i, {"base"})
MetaTagEnd(s, i) == OpenTagEnd(s, i, {"meta"})
LinkTagEnd(s, i) == OpenTagEnd(s, i, {"link"})

\* the patterns of the replace calls that delete their matches, by name:
\* the index after the match of the pattern at i, 0 when it does not match
MatchEnd(pattern, s, i) ==
    CASE pattern = "script" -> ScriptBlockEnd(s, i)
      [] pattern = "style" -> StyleBlockEnd(s, i)
      [] pattern = "quotedHandler" -> QuotedHandlerEnd(s, i)
      [] pattern = "unquotedHandler" -> UnquotedHandlerEnd(s, i)
      [] pattern = "javascript" -> JavascriptEnd(s, i)
      [] pattern = "data" -> DataEnd(s, i)
      [] pattern = "embeddingOpen" -> EmbeddingOpenEnd(s, i)
      [] pattern = "embeddingClose" -> EmbeddingCloseEnd(s, i)
      [] pattern = "base" -> BaseTagEnd(s, i)
      [] pattern = "meta" -> MetaTagEnd(s, i)
      [] pattern = "link" -> LinkTagEnd(s, i)

\* the characters a match of the pattern can begin with
FirstChars(pattern) ==
    CASE pattern \in {"quotedHandler", "unquotedHandler"} -> RegexSpace
      [] pattern = "javascript" -> {"j", "J"}
      [] pattern = "data" -> {"d", "D"}
      [] OTHER -> {"<"}

RECURSIVE replaceAll(_, _, _, _)
\* s.replace(pattern, with) from index i on, for a /g pattern
replaceAll(s, i, pattern, with) ==
    LET end == [j \in i..Len(s) |->
                   IF Ch(s, j) \in FirstChars(pattern)
                   THEN MatchEnd(pattern, s, j) ELSE 0]
        at == {j \in i..Len(s) : end[j] > j}
    IN  IF at = {} THEN From(s, i)
        ELSE LET j == Min(at)
             IN  SubSeq(s, i, j - 1) \o with \o replaceAll(s, end[j], pattern, with)

\* the patterns whose matches sanitizeHtmlRegex deletes, in the order of
\* its replace calls
DeletedPatterns ==
    <<"script", "style", "quotedHandler", "unquotedHandler", "javascript",
      "data", "embeddingOpen", "embeddingClose", "base", "meta", "link">>

RECURSIVE deleteFrom(_, _)
\* sanitized after the replace calls from the k-th of DeletedPatterns on
deleteFrom(sanitized, k) ==
    IF k > Len(DeletedPatterns) THEN sanitized
    ELSE deleteFrom(replaceAll(sanitized, 1, DeletedPatterns[k], ""), k + 1)

\* /<a\s+([^>]*href\s*=\s*["'][^"']*["'][^>]*)>/gi at i: the index k where
\* the group starts and the index e of the closing '>' (e = 0: no match).
\* The first [^>]* is greedy, so the last href it can reach is taken.
AnchorMatch(s, i) ==
    LET k == SkipIn(s, i + 2, RegexSpace)
        g == SkipNotIn(s, k, {">"})
        HrefEnd(h) ==
            LET a == SkipIn(s, h + 4, RegexSpace)
                q == SkipIn(s, a + 1, RegexSpace)
                c == SkipNotIn(s, q + 1, Quotes)
                e == SkipNotIn(s, c + 1, {">"})
            IN  IF /\ MatchCI(s, h, "href")
                   /\ Ch(s, a) = "="
                   /\ Ch(s, q) \in Quotes
                   /\ c <= Len(s)
                   /\ e <= Len(s)
                THEN e ELSE 0
        cands == {h \in k..(g - 1) : HrefEnd(h) > 0}
    IN  IF MatchCI(s, i, "<a") /\ k > i + 2 /\ cands # {}
        THEN [k |-> k, e |-> HrefEnd(CHOOSE h \in cands : \A x \in cands : x <= h)]
        ELSE [k |-> 0, e |-> 0]

RECURSIVE addRelFirst(_, _)
\* a replacement that puts the rel before the group:
\* '<a rel="noopener noreferrer" $1>'
addRelFirst(s, i) ==
    LET at == {j \in i..Len(s) : Ch(s, j) = "<" /\ AnchorMatch(s, j).e > 0}
    IN  IF at = {} THEN From(s, i)
        ELSE LET j == Min(at)
                 m == AnchorMatch(s, j)
             IN  SubSeq(s, i, j - 1)
                 \o "<a rel=\"noopener noreferrer\" " \o SubSeq(s, m.k, m.e - 1) \o ">"
                 \o addRelFirst(s, m.e + 1)

RECURSIVE addRel(_, _)
\* s.replace(<the pattern of AnchorMatch>, '<a $1 rel="noopener noreferrer">')
addRel(s, i) ==
    LET at == {j \in i..Len(s) : Ch(s, j) = "<" /\ AnchorMatch(s, j).e > 0}
    IN  IF at = {} THEN From(s, i)
        ELSE LET j == Min(at)
                 m == AnchorMatch(s, j)
             IN  SubSeq(s, i, j - 1)
                 \o "<a " \o SubSeq(s, m.k, m.e - 1) \o " rel=\"noopener noreferrer\">"
                 \o addRel(s, m.e + 1)

sanitizeHtmlRegex(h) == addRel(deleteFrom(h, 1), 1)

----------------------------------------------------------------------------
(* new DOMParser().parseFromString(html, 'text/html').body, for markup    *)
(* that is the serialization innerHTML(nodes, "body") of a node list: the *)
(* parser joins adjacent text into one text node, and puts comments and   *)
(* script/style elements that come before any body content outside the    *)
(* body.                                                                  *)

HeadContent(n) ==
    \/ n.nodeType = COMMENT_NODE
    \/ n.nodeType = ELEMENT_NODE /\ toLowerCase(n.tagName) \in {"script", "style"}

RECURSIVE DropHeadContent(_)
DropHeadContent(nodes) ==
    IF nodes # <<>> /\ HeadContent(Head(nodes))
    THEN DropHeadContent(Tail(nodes)) ELSE nodes

RECURSIVE JoinText(_)
JoinText(nodes) ==
    IF nodes = <<>> THEN <<>>
    ELSE LET n == Head(nodes)
             rest == JoinText(Tail(nodes))
         IN  IF n.nodeType = ELEMENT_NODE
             THEN <<Element(n.tagName, n.attributes, JoinText(n.childNodes))>> \o rest
             ELSE IF n.nodeType = TEXT_NODE /\ rest # <<>>
                     /\ Head(rest).nodeType = TEXT_NODE
             THEN <<Text(n.data \o Head(rest).data)>> \o Tail(rest)
             ELSE <<n>> \o rest

DOMParserBody(nodes) == JoinText(DropHeadContent(nodes))

----------------------------------------------------------------------------
(* sanitizeHtml.  childNodes stands for the body DOMParser builds from h. *)

sanitizeHtml(h, childNodes, window) ==
    IF ~window THEN sanitizeHtmlRegex(h) ELSE sanitizeHtmlDOM(childNodes)

\* TRUE when the call of sanitizeHtml ends with an exception
sanitizeHtmlThrows(h, childNodes, window) ==
    window /\ sanitizeNodeThrows(childNodes)

----------------------------------------------------------------------------
(* The callers of sanitizeHtml: markup whose body has at most MaxNodes    *)
(* nodes, built node by node in document order, as the parser builds it,  *)
(* from the leaves and the container elements below.                      *)

MaxNodes == 3

TableRow ==
    Element("TABLE", <<>>, <<Element("TBODY", <<>>, <<Element("TR", <<>>,
        <<Element("TD", <<Attr("colspan", "2"), Attr("onclick", "x()")>>,
                  <<Text("x")>>)>>)>>)>>)

Leaves ==
    {Text("hello"),
     Comment("[if IE]><script>evil()</script><![endif]"),
     Element("IMG", <<Attr("src", "https://x.com/a.png"),
                      Attr("onerror", "alert(1)")>>, <<>>),
     Element("IMG", <<Attr("src", "data:image/png;base64,AAAA"),
                      Attr("alt", "pic")>>, <<>>),
     Element("SCRIPT", <<>>, <<Text("steal()")>>),
     TableRow}

Containers ==
    {[tagName |-> "DIV", attributes |-> <<Attr("class", "c"), Attr("style", "color:red")>>],
     [tagName |-> "A", attributes |-> <<Attr("href", "/blog/post")>>],
     [tagName |-> "A", attributes |-> <<Attr("href", "javascript:alert(1)"),
                                         Attr("rel", "nofollow"),
                                         Attr("target", "_blank")>>],
     [tagName |-> "FOO", attributes |-> <<>>]}

\* the nodes the parser appends: a leaf, or a container element that is
\* still open
NewNodes ==
    Leaves \cup {Element(c.tagName, c.attributes, <<>>) : c \in Containers}

IsText(n) == n.nodeType = TEXT_NODE
IsContainer(n) ==
    n.nodeType = ELEMENT_NODE /\ n.tagName \in {c.tagName : c \in Containers}
Last(nodes) == nodes[Len(nodes)]

RECURSIVE Size(_)
\* the number of nodes of a node list, a member of Leaves counted as one
Size(nodes) ==
    IF nodes = <<>> THEN 0
    ELSE (IF IsContainer(Head(nodes)) THEN 1 + Size(Head(nodes).childNodes) ELSE 1)
         + Size(Tail(nodes))

RECURSIVE CanAppend(_, _, _, _, _)
\* the parser can append new as the last child of the open element at depth
\* d of the stack of open elements (the body is at depth 0): it builds no
\* text node next to a text node and no a element below an a element, and
\* puts a comment or script that comes before all body content outside the
\* body
CanAppend(nodes, d, new, inAnchor, top) ==
    IF d = 0
    THEN /\ ~(IsText(new) /\ nodes # <<>> /\ IsText(Last(nodes)))
         /\ ~(inAnchor /\ new.tagName = "A")
         /\ ~(top /\ nodes = <<>> /\ HeadContent(new))
    ELSE /\ nodes # <<>>
         /\ IsContainer(Last(nodes))
         /\ CanAppend(Last(nodes).childNodes, d - 1, new,
                      inAnchor \/ Last(nodes).tagName = "A", FALSE)

RECURSIVE AppendAt(_, _, _)
AppendAt(nodes, d, new) ==
    IF d = 0 THEN Append(nodes, new)
    ELSE [nodes EXCEPT ![Len(nodes)].childNodes = AppendAt(@, d - 1, new)]

NoUrlCall ==
    /\ url = ""
    /\ safe = FALSE

\* no server is running
NoServer ==
    /\ now = 0
    /\ ticks = 0
    /\ env = <<>>
    /\ rateLimitStore = <<>>
    /\ loginAttempts = <<>>
    /\ sessions = <<>>
    /\ inflight = EmptyBag
    /\ response = <<>>
    /\ sent = <<>>
    /\ passed = <<>>
    /\ failed = <<>>
    /\ issued = <<>>

Init ==
    /\ pc = "start"
    /\ tree = <<>>
    /\ html = ""
    /\ hasWindow \in BOOLEAN
    /\ out = ""
    /\ body = <<>>
    /\ out2 = ""
    /\ threw = FALSE
    /\ NoUrlCall
    /\ NoServer

\* the markup the caller holds gets one more node
Grow ==
    /\ pc = "start"
    /\ Size(tree) < MaxNodes
    /\ \E new \in NewNodes, d \in 0..(MaxNodes - 1) :
          /\ CanAppend(tree, d, new, FALSE, TRUE)
          /\ tree' = AppendAt(tree, d, new)
          /\ html' = innerHTML(tree', "body")
    /\ UNCHANGED <<pc, hasWindow, out, body, out2, threw, urlVars, serverVars>>

\* the caller passes html to sanitizeHtml
Sanitize ==
    /\ pc = "start"
    /\ threw' = sanitizeHtmlThrows(html, tree, hasWindow)
    /\ out' = IF threw' THEN out ELSE sanitizeHtml(html, tree, hasWindow)
    /\ body' = IF hasWindow /\ ~threw' THEN sanitizeBody(tree) ELSE <<>>
    /\ pc' = "done"
    /\ UNCHANGED <<tree, html, hasWindow, out2, urlVars, serverVars>>

\* the caller passes the string it got back to sanitizeHtml again
SanitizeAgain ==
    /\ pc = "done"
    /\ ~threw
    /\ threw' = sanitizeHtmlThrows(out, DOMParserBody(body), hasWindow)
    /\ out2' = IF threw' THEN out2
                ELSE sanitizeHtml(out, DOMParserBody(body), hasWindow)
    /\ pc' = "again"
    /\ UNCHANGED <<tree, html, hasWindow, out, body, urlVars, serverVars>>

Next == Grow \/ Sanitize \/ SanitizeAgain

\* sanitizeHtml in either execution context
Spec == Init /\ [][Next]_vars

\* sanitizeHtml in a browser, where window is defined
InitDOM == Init /\ hasWindow = TRUE

SpecDOM == InitDOM /\ [][Next]_vars

----------------------------------------------------------------------------
(* The callers of sanitizeHtml whose markup carries malformed URLs: at    *)
(* most MaxMalformed top-level nodes from MalformedNodes.                 *)

MaxMalformed == 2

MalformedNodes ==
    {Text("x"),
     Element("A", <<Attr("href", "http://")>>, <<>>),
     Element("A", <<Attr("href", "not a url")>>, <<Text("y")>>),
     Element("A", <<Attr("href", "HTTP://")>>, <<>>),
     Element("IMG", <<Attr("src", "https://exa mple.com/a.png")>>, <<>>),
     Element("IMG", <<Attr("src", ":")>>, <<>>),
     Element("DIV", <<>>, <<Element("A", <<Attr("href", "//")>>, <<>>)>>),
     Element("FOO", <<Attr("href", "http://")>>, <<>>)}

RECURSIVE NodeLists(_, _)
\* the node lists of at most n members of nodes
NodeLists(nodes, n) ==
    IF n = 0 THEN {<<>>}
    ELSE LET shorter == NodeLists(nodes, n - 1)
         IN  shorter \cup {Append(l, new) : l \in shorter, new \in nodes}

\* the bodies the parser builds from such markup
MalformedInputs == {DOMParserBody(l) : l \in NodeLists(MalformedNodes, MaxMalformed)}

InitTotal ==
    /\ pc = "start"
    /\ tree \in MalformedInputs
    /\ html = innerHTML(tree, "body")
    /\ hasWindow \in BOOLEAN
    /\ out = ""
    /\ body = <<>>
    /\ out2 = ""
    /\ threw = FALSE
    /\ NoUrlCall
    /\ NoServer

NextTotal == Sanitize \/ SanitizeAgain

SpecTotal == InitTotal /\ [][NextTotal]_vars

----------------------------------------------------------------------------
(* The callers of isSafeUrl: arguments built from UrlFrags *)

MaxUrlFrags == 4

UrlFrags ==
    {"http:", "HTTP:", "https:", "mailto:", "javascript:", "data:",
     "/", ".", "#", " ", "a"}

RECURSIVE Concats(_, _)
\* the concatenations of at most n members of frags
Concats(frags, n) ==
    IF n = 0 THEN {""}
    ELSE LET shorter == Concats(frags, n - 1)
         IN  shorter \cup {s \o f : s \in shorter, f \in frags}

UrlInputs == Concats(UrlFrags, MaxUrlFrags)

NoHtml ==
    /\ tree = <<>>
    /\ html = ""
    /\ hasWindow = FALSE
    /\ out = ""
    /\ body = <<>>
    /\ out2 = ""
    /\ threw = FALSE

InitUrl ==
    /\ pc = "start"
    /\ url \in UrlInputs
    /\ safe = FALSE
    /\ NoHtml
    /\ NoServer

CallIsSafeUrl ==
    /\ pc = "start"
    /\ safe' = isSafeUrl(url)
    /\ pc' = "done"
    /\ UNCHANGED <<url, htmlVars, serverVars>>

NextUrl == CallIsSafeUrl

SpecUrl == InitUrl /\ [][NextUrl]_vars

----------------------------------------------------------------------------
(* The callers of sanitizeHtml on the server, where window is undefined   *)
(* and no tree is built: markup written as text, the concatenation of at  *)
(* most MaxTextFrags members of TextFrags.                                *)

MaxTextFrags == 4

TextFrags ==
    {"<a", " href=\"/p\"", " href=\"java", "script:x\">", "<iframe>",
     " rel=\"nofollow\"", ">", "javascript:"}

TextInputs == Concats(TextFrags, MaxTextFrags)

InitText ==
    /\ pc = "start"
    /\ html \in TextInputs
    /\ tree = <<>>
    /\ hasWindow = FALSE
    /\ out = ""
    /\ body = <<>>
    /\ out2 = ""
    /\ threw = FALSE
    /\ NoUrlCall
    /\ NoServer

NextText == Sanitize

SpecText == InitText /\ [][NextText]_vars

----------------------------------------------------------------------------
(* The server: Maps, the clock, requests and responses *)

\* a Map is the function from its keys to their values
EmptyMap == [key \in {} |-> 0]

\* map.set(key, value)
MapSet(map, key, value) ==
    [k \in DOMAIN map \cup {key} |-> IF k = key THEN value ELSE map[k]]

\* map.delete(key)
MapDelete(map, key) == [k \in DOMAIN map \ {key} |-> map[k]]

\* no request has been handled in this step
NoResponse == [status |-> 0, route |-> ""]

\* Date.now() moves on by one of delays, at most maxTicks times
Tick(delays, maxTicks) ==
    /\ ticks < maxTicks
    /\ \E d \in delays : now' = now + d
    /\ ticks' = ticks + 1

\* Math.ceil(ms / 1000)
CeilSeconds(ms) == (ms + 999) \div 1000

\* forwarded.split(',')[0].trim()
FirstForwarded(forwarded) ==
    LET comma == IndexOf(forwarded, 1, ",", FALSE)
        first == IF comma = 0 THEN forwarded ELSE SubSeq(forwarded, 1, comma - 1)
    IN  TrimStart(TrimEnd(first))

\* getClientIP / the ip of getRateLimitKey; forwarded is the
\* x-forwarded-for header, "" when the request has none
getClientIP(forwarded) ==
    IF forwarded # "" THEN FirstForwarded(forwarded) ELSE "unknown"

----------------------------------------------------------------------------
(* middleware *)

RATE_LIMIT_WINDOW == 60 * 1000
RATE_LIMIT_MAX_REQUESTS == 30

getRateLimitKey(request) == "ratelimit:" \o getClientIP(request.forwarded)

\* a limit test that lets one request more through
rateLimitReachedLate(entry) == entry.count > RATE_LIMIT_MAX_REQUESTS

\* checkRateLimit: entry.count >= RATE_LIMIT_MAX_REQUESTS
rateLimitReached(entry) == entry.count >= RATE_LIMIT_MAX_REQUESTS

\* checkRateLimit(key) at time on store: what it returns, and the store
\* it leaves
checkRateLimit(store, key, time) ==
    IF key \notin DOMAIN store \/ store[key].resetTime < time
    THEN [allowed |-> TRUE,
          remaining |-> RATE_LIMIT_MAX_REQUESTS - 1,
          resetIn |-> RATE_LIMIT_WINDOW,
          store |-> MapSet(store, key,
                           [count |-> 1, resetTime |-> time + RATE_LIMIT_WINDOW])]
    ELSE IF rateLimitReached(store[key])
    THEN [allowed |-> FALSE,
          remaining |-> 0,
          resetIn |-> store[key].resetTime - time,
          store |-> store]
    ELSE [allowed |-> TRUE,
          remaining |-> RATE_LIMIT_MAX_REQUESTS - (store[key].count + 1),
          resetIn |-> store[key].resetTime - time,
          store |-> MapSet(store, key,
                           [store[key] EXCEPT !.count = store[key].count + 1])]

\* the responses of middleware; status 0 with next: NextResponse.next()
MiddlewareResponse(status, error, remaining, reset, location, next) ==
    [status |-> status, error |-> error, remaining |-> remaining,
     reset |-> reset, location |-> location, next |-> next]

\* middleware(request), given what checkRateLimit returned for its key
middleware(request, limit) ==
    LET pathname == request.pathname
    IN  IF StartsWith(pathname, "/api/")
        THEN IF ~limit.allowed
             THEN MiddlewareResponse(429, "Too many requests. Please try again later.",
                                     0, CeilSeconds(limit.resetIn), "", FALSE)
             ELSE IF (pathname = "/api/publish" \/ pathname = "/api/config")
                     /\ request.cookie = ""
             THEN MiddlewareResponse(401, "Authentication required", -1, -1, "", FALSE)
             ELSE MiddlewareResponse(200, "", limit.remaining,
                                     CeilSeconds(limit.resetIn), "", TRUE)
        ELSE IF (pathname = "/" \/ StartsWith(pathname, "/app")) /\ request.cookie = ""
        THEN MiddlewareResponse(307, "", -1, -1, "/login?redirect=" \o pathname, FALSE)
        ELSE IF pathname = "/login" /\ request.cookie # ""
        THEN MiddlewareResponse(307, "", -1, -1, "/", FALSE)
        ELSE MiddlewareResponse(200, "", -1, -1, "", TRUE)

\* the timer of the middleware module: the entries past their resetTime
\* are deleted
cleanRateLimitStore(store, time) ==
    [key \in {k \in DOMAIN store : ~(store[k].resetTime < time)} |-> store[key]]

----------------------------------------------------------------------------
(* The clients of the middleware *)

Pathnames == {"/api/auth/login", "/api/config", "/", "/login"}
Forwardeds == {"1.1.1.1", " 1.1.1.1 , 10.0.0.1"}
Cookies == {"", "t1"}

MiddlewareRequests ==
    [pathname : Pathnames, forwarded : Forwardeds, cookie : Cookies]

RateDelays == {1, RATE_LIMIT_WINDOW}

\* the clock of the middleware is advanced at most MaxRateTicks times
MaxRateTicks == 2

\* the clients send their requests in bursts: between two readings of the
\* clock a key is let through this many times
BurstSizes == {0, 1, RATE_LIMIT_MAX_REQUESTS - 1, RATE_LIMIT_MAX_REQUESTS}

\* the times in history from time on
Since(history, time) == SelectSeq(history, LAMBDA at : at >= time)

\* the members of a history per key that are no older than the window
Recent(history, time) ==
    [key \in DOMAIN history |-> Since(history[key], time - RATE_LIMIT_WINDOW)]

NoSanitizer ==
    /\ pc = "serving"
    /\ NoUrlCall
    /\ NoHtml

appVars == <<env, loginAttempts, sessions, inflight, sent, failed, issued>>

NoApp ==
    /\ env = EmptyMap
    /\ loginAttempts = EmptyMap
    /\ sessions = EmptyMap
    /\ inflight = EmptyBag
    /\ sent = <<>>
    /\ failed = EmptyMap
    /\ issued = EmptyMap

InitRate ==
    /\ NoSanitizer
    /\ NoApp
    /\ now = 0
    /\ ticks = 0
    /\ rateLimitStore = EmptyMap
    /\ response = NoResponse
    /\ passed = EmptyMap

\* how often the key has been let through at this reading of the clock
Burst(key) == Len(Since(passed[key], now))

TickRate ==
    /\ \A key \in DOMAIN passed : Burst(key) \in BurstSizes
    /\ Tick(RateDelays, MaxRateTicks)
    /\ passed' = Recent(passed, now')
    /\ response' = NoResponse
    /\ UNCHANGED <<pc, urlVars, htmlVars, appVars, rateLimitStore>>

\* a request reaches the middleware
Middleware ==
    \E request \in MiddlewareRequests :
        LET key == getRateLimitKey(request)
            limited == StartsWith(request.pathname, "/api/")
            limit == checkRateLimit(rateLimitStore, key, now)
        IN  /\ rateLimitStore' = IF limited THEN limit.store ELSE rateLimitStore
            /\ response' = middleware(request, limit)
            /\ passed' = IF limited /\ limit.allowed
                         THEN MapSet(passed, key,
                                     IF key \in DOMAIN passed
                                     THEN Append(passed[key], now) ELSE <<now>>)
                         ELSE passed
            /\ UNCHANGED <<pc, urlVars, htmlVars, appVars, now, ticks>>

\* the timer of the middleware module fires
CleanRateLimitStore ==
    /\ rateLimitStore' = cleanRateLimitStore(rateLimitStore, now)
    /\ response' = NoResponse
    /\ UNCHANGED <<pc, urlVars, htmlVars, appVars, now, ticks, passed>>

NextRate == TickRate \/ Middleware \/ CleanRateLimitStore

SpecRate == InitRate /\ [][NextRate]_vars

----------------------------------------------------------------------------
(* src/lib/auth.ts *)

\* The credentials are strings of UTF-16 code units: sequences of numbers.
\* process.env.X of a variable that is not set
Undefined == <<-1>>

\* !value of a string or undefined
Falsy(value) == value = Undefined \/ value = <<>>

SESSION_MAX_AGE == 60 * 60 * 24

IsHighSurrogate(c) == 55296 <= c /\ c <= 56319
IsLowSurrogate(c) == 56320 <= c /\ c <= 57343

\* new TextEncoder().encode(s): the UTF-8 bytes of s, a surrogate without
\* its partner encoded as U+FFFD
RECURSIVE TextEncoderEncode(_)
TextEncoderEncode(s) ==
    IF s = <<>> THEN <<>>
    ELSE LET c == s[1]
         IN  IF c < 128 THEN <<c>> \o TextEncoderEncode(Tail(s))
             ELSE IF c < 2048
             THEN <<192 + (c \div 64), 128 + (c % 64)>> \o TextEncoderEncode(Tail(s))
             ELSE IF IsHighSurrogate(c) /\ Len(s) >= 2 /\ IsLowSurrogate(s[2])
             THEN LET cp == 65536 + (c - 55296) * 1024 + (s[2] - 56320)
                  IN  <<240 + (cp \div 262144), 128 + ((cp \div 4096) % 64),
                        128 + ((cp \div 64) % 64), 128 + (cp % 64)>>
                          \o TextEncoderEncode(SubSeq(s, 3, Len(s)))
             ELSE IF IsHighSurrogate(c) \/ IsLowSurrogate(c)
             THEN <<239, 191, 189>> \o TextEncoderEncode(Tail(s))
             ELSE <<224 + (c \div 4096), 128 + ((c \div 64) % 64), 128 + (c % 64)>>
                      \o TextEncoderEncode(Tail(s))

\* the block of HMAC-SHA-256 in bytes
HmacBlock == 64

\* crypto.subtle.sign('HMAC', key, [1]) for the key imported from bytes:
\* HMAC pads a key of up to a block with zeros and hashes a longer one;
\* the signature stands for the padded key it is computed from
hmacSign(bytes) ==
    IF Len(bytes) <= HmacBlock
    THEN <<"HMAC">> \o bytes \o [i \in 1..(HmacBlock - Len(bytes)) |-> 0]
    ELSE <<"HMAC", "SHA-256">> \o bytes

timingSafeEqual(a, b) ==
    LET aBytes == TextEncoderEncode(a)
        bBytes == TextEncoderEncode(b)
    IN  IF Len(aBytes) # Len(bBytes) THEN FALSE
        ELSE hmacSign(aBytes) = hmacSign(bBytes)

\* a.length === b.length && crypto.subtle ? await timingSafeEqual(a, b) : a === b
credentialMatch(e, a, b) ==
    IF Len(a) = Len(b) /\ e.subtle THEN timingSafeEqual(a, b) ELSE a = b

validateCredentials(e, username, password) ==
    LET validUsername == e.AUTH_USERNAME
        validPassword == e.AUTH_PASSWORD
    IN  IF Falsy(validUsername) \/ Falsy(validPassword) THEN FALSE
        ELSE credentialMatch(e, username, validUsername)
                 /\ credentialMatch(e, password, validPassword)

\* a test that also turns away a session at the instant of its expiry
sessionExpiredAtExpiry(session, time) == session.expires <= time

\* session.expires < Date.now()
sessionExpired(session, time) == session.expires < time

cleanExpiredSessions(store, time) ==
    [token \in {k \in DOMAIN store : ~(store[k].expires < time)} |-> store[token]]

\* createSession(username) at time, token being what generateSessionToken
\* returns
createSession(store, username, token, time) ==
    MapSet(cleanExpiredSessions(store, time), token,
           [username |-> username, expires |-> time + SESSION_MAX_AGE * 1000])

\* the cookie that setSessionCookie sets
setSessionCookie(token) ==
    [name |-> "webflow-blog-session", value |-> token, httpOnly |-> TRUE,
     sameSite |-> "lax", maxAge |-> SESSION_MAX_AGE, path |-> "/"]

Null == [null |-> TRUE]

\* a getSession that takes the presence of the cookie for a session, as
\* the middleware does
getSessionOfAnyCookie(store, token, time) ==
    [session |-> IF token = "" THEN Null ELSE [username |-> token],
     store |-> store]

\* getSession() for the value token of the session cookie, "" when the
\* request has none: what it returns, and the store it leaves
getSession(store, token, time) ==
    IF token = "" THEN [session |-> Null, store |-> store]
    ELSE IF token \notin DOMAIN store \/ sessionExpired(store[token], time)
    THEN [session |-> Null,
          store |-> IF token \in DOMAIN store THEN MapDelete(store, token)
                    ELSE store]
    ELSE [session |-> [username |-> store[token].username], store |-> store]

\* getSessionFromRequest(request): the same steps on request.cookies
getSessionFromRequest(store, request, time) ==
    LET token == request.cookie
    IN  IF token = "" THEN [session |-> Null, store |-> store]
        ELSE IF token \notin DOMAIN store \/ sessionExpired(store[token], time)
        THEN [session |-> Null,
              store |-> IF token \in DOMAIN store THEN MapDelete(store, token)
                        ELSE store]
        ELSE [session |-> [username |-> store[token].username], store |-> store]

\* destroySession(): the store it leaves
destroySession(store, token) ==
    IF token # "" THEN MapDelete(store, token) ELSE store

----------------------------------------------------------------------------
(* src/app/api/auth/login/route.ts *)

MAX_LOGIN_ATTEMPTS == 5
LOCKOUT_DURATION == 15 * 60 * 1000

\* the longest username and password that POST hands to validateCredentials
MaxCredentialLength == 100

\* a checkLoginAttempts that refuses only past the limit (count > 5)
checkLoginAttemptsPastLimit(attempts, ip, time) ==
    IF ip \notin DOMAIN attempts \/ attempts[ip].resetTime < time
    THEN [allowed |-> TRUE,
          remainingAttempts |-> MAX_LOGIN_ATTEMPTS,
          attempts |-> MapSet(attempts, ip,
                              [count |-> 0, resetTime |-> time + LOCKOUT_DURATION])]
    ELSE IF attempts[ip].count > MAX_LOGIN_ATTEMPTS
    THEN [allowed |-> FALSE, remainingAttempts |-> 0, attempts |-> attempts]
    ELSE [allowed |-> TRUE,
          remainingAttempts |-> MAX_LOGIN_ATTEMPTS - attempts[ip].count,
          attempts |-> attempts]

checkLoginAttempts(attempts, ip, time) ==
    IF ip \notin DOMAIN attempts \/ attempts[ip].resetTime < time
    THEN [allowed |-> TRUE,
          remainingAttempts |-> MAX_LOGIN_ATTEMPTS,
          attempts |-> MapSet(attempts, ip,
                              [count |-> 0, resetTime |-> time + LOCKOUT_DURATION])]
    ELSE IF attempts[ip].count >= MAX_LOGIN_ATTEMPTS
    THEN [allowed |-> FALSE, remainingAttempts |-> 0, attempts |-> attempts]
    ELSE [allowed |-> TRUE,
          remainingAttempts |-> MAX_LOGIN_ATTEMPTS - attempts[ip].count,
          attempts |-> attempts]

recordLoginAttempt(attempts, ip) ==
    IF ip \in DOMAIN attempts
    THEN MapSet(attempts, ip, [attempts[ip] EXCEPT !.count = attempts[ip].count + 1])
    ELSE attempts

clearLoginAttempts(attempts, ip) == MapDelete(attempts, ip)

\* the responses of POST; cookie is Null unless setSessionCookie was called
LoginResponse(status, error, ip, cookie) ==
    [route |-> "/api/auth/login", status |-> status, error |-> error,
     ip |-> ip, cookie |-> cookie]

\* POST up to its first await: the response if it returns one, status 0 if
\* it goes on
LoginChecked(check, ip) ==
    IF ~check.allowed
    THEN LoginResponse(429, "Too many login attempts. Please try again in 15 minutes.",
                       ip, Null)
    ELSE LoginResponse(0, "", ip, Null)

\* POST from await request.json() on, for the handler h that has passed the
\* check: its response, the stores it leaves and whether validateCredentials
\* was called and what it returned
LoginFinished(h, e, attempts, store, token, time) ==
    LET json == h.body
        unchanged == [attempts |-> attempts, sessions |-> store,
                      validated |-> FALSE, isValid |-> FALSE]
    IN  IF ~json.parses
        THEN [response |-> LoginResponse(500, "An error occurred during login",
                                         h.ip, Null)] @@ unchanged
        ELSE IF Falsy(json.username) \/ Falsy(json.password)
        THEN [response |-> LoginResponse(400, "Username and password are required",
                                         h.ip, Null)] @@ unchanged
        ELSE IF Len(json.username) > MaxCredentialLength
                \/ Len(json.password) > MaxCredentialLength
        THEN [response |-> LoginResponse(401, "Invalid credentials", h.ip, Null)]
                 @@ unchanged
        ELSE IF ~validateCredentials(e, json.username, json.password)
        THEN [response |->
                  LoginResponse(401,
                                "Invalid credentials. "
                                    \o ToString(h.remainingAttempts - 1)
                                    \o " attempts remaining.",
                                h.ip, Null),
              attempts |-> recordLoginAttempt(attempts, h.ip),
              sessions |-> store,
              validated |-> TRUE,
              isValid |-> FALSE]
        ELSE [response |-> LoginResponse(200, "", h.ip, setSessionCookie(token)),
              attempts |-> clearLoginAttempts(attempts, h.ip),
              sessions |-> createSession(store, json.username, token, time),
              validated |-> TRUE,
              isValid |-> TRUE]

----------------------------------------------------------------------------
(* The clients of the login route and of the sessions *)

\* "admin"
Admin == <<97, 100, 109, 105, 110>>

\* "p" and U+FFFD
PasswordFFFD == <<112, 65533>>

\* "p" and the surrogate D800 without its partner
PasswordD800 == <<112, 55296>>

\* "pw", "px", "p"
PasswordPw == <<112, 119>>
PasswordPx == <<112, 120>>
PasswordP == <<112>>

\* one code unit more than POST accepts
TooLong == [i \in 1..(MaxCredentialLength + 1) |-> 97]

Env(username, password, subtle) ==
    [AUTH_USERNAME |-> username, AUTH_PASSWORD |-> password, subtle |-> subtle,
     WEBFLOW_SITE_ID |-> "site", WEBFLOW_COLLECTION_ID |-> "",
     WEBFLOW_API_TOKEN |-> ""]

\* "admim"
Admim == <<97, 100, 109, 105, 109>>

\* what generateSessionToken can return
Tokens == {"t1", "t2"}

SessionCookies == Tokens \cup {"", "forged"}

rateVars == <<rateLimitStore, passed>>

\* the server has started with the environment e and has created the
\* sessions of store at the times created
InitAppWith(e, store, created) ==
    /\ NoSanitizer
    /\ now = 0
    /\ ticks = 0
    /\ env = e
    /\ rateLimitStore = EmptyMap
    /\ passed = EmptyMap
    /\ loginAttempts = EmptyMap
    /\ sessions = store
    /\ inflight = EmptyBag
    /\ response = NoResponse
    /\ sent = <<>>
    /\ failed = EmptyMap
    /\ issued = created

\* the server has started with the environment e
InitApp(e) == InitAppWith(e, EmptyMap, EmptyMap)

TickApp(delays, maxTicks) ==
    /\ Tick(delays, maxTicks)
    /\ response' = NoResponse
    /\ UNCHANGED <<pc, urlVars, htmlVars, rateVars, env, loginAttempts, sessions,
                   inflight, sent, failed, issued>>

\* POST /api/auth/login up to await request.json(), for one of requests
\* while fewer than maxInFlight requests are being handled
LoginCheck(requests, maxInFlight) ==
    /\ BagCardinality(inflight) < maxInFlight
    /\ \E request \in requests :
           LET ip == getClientIP(request.forwarded)
               check == checkLoginAttempts(loginAttempts, ip, now)
           IN  /\ loginAttempts' = check.attempts
               /\ response' = LoginChecked(check, ip)
               /\ inflight' =
                      IF check.allowed
                      THEN inflight (+) SetToBag({[ip |-> ip, body |-> request.body,
                                                   remainingAttempts |->
                                                       check.remainingAttempts]})
                      ELSE inflight
    /\ UNCHANGED <<pc, urlVars, htmlVars, rateVars, env, now, ticks, sessions,
                   sent, failed, issued>>

\* the history of key with one more time
Noted(history, key, time) ==
    MapSet(history, key,
           IF key \in DOMAIN history THEN Append(history[key], time) ELSE <<time>>)

\* POST /api/auth/login from await request.json() to its response
LoginFinish ==
    /\ \E h \in BagToSet(inflight) :
       \E token \in Tokens \ DOMAIN issued :
           LET finished == LoginFinished(h, env, loginAttempts, sessions, token, now)
           IN  /\ inflight' = inflight (-) SetToBag({h})
               /\ loginAttempts' = finished.attempts
               /\ sessions' = finished.sessions
               /\ response' = finished.response
               /\ failed' = IF finished.validated /\ ~finished.isValid
                            THEN Noted(failed, h.ip, now)
                            ELSE IF finished.isValid THEN MapDelete(failed, h.ip)
                            ELSE failed
               /\ issued' = IF finished.isValid THEN MapSet(issued, token, now)
                            ELSE issued
    /\ UNCHANGED <<pc, urlVars, htmlVars, rateVars, env, now, ticks, sent>>

\* the responses of the callers of getSession
SessionResponse(route, status, cookie, session) ==
    [route |-> route, status |-> status, cookie |-> cookie, session |-> session]

\* GET /api/config
ConfigGET ==
    /\ \E cookie \in SessionCookies :
           LET got == getSession(sessions, cookie, now)
           IN  /\ sessions' = got.store
               /\ response' =
                      IF got.session = Null
                      THEN SessionResponse("/api/config", 401, cookie, got.session)
                           @@ [error |-> "Authentication required"]
                      ELSE SessionResponse("/api/config", 200, cookie, got.session)
                           @@ [siteId |-> env.WEBFLOW_SITE_ID,
                               collectionId |-> env.WEBFLOW_COLLECTION_ID,
                               hasApiToken |-> env.WEBFLOW_API_TOKEN # ""]
    /\ UNCHANGED <<pc, urlVars, htmlVars, rateVars, env, now, ticks, loginAttempts,
                   inflight, sent, failed, issued>>

\* a caller of getSessionFromRequest
GetSessionFromRequest ==
    /\ \E cookie \in SessionCookies :
           LET got == getSessionFromRequest(sessions, [cookie |-> cookie], now)
           IN  /\ sessions' = got.store
               /\ response' =
                      SessionResponse("getSessionFromRequest",
                                      IF got.session = Null THEN 401 ELSE 200,
                                      cookie, got.session)
    /\ UNCHANGED <<pc, urlVars, htmlVars, rateVars, env, now, ticks, loginAttempts,
                   inflight, sent, failed, issued>>

\* a caller of destroySession
DestroySession ==
    /\ \E cookie \in SessionCookies :
           /\ sessions' = destroySession(sessions, cookie)
           /\ response' = SessionResponse("destroySession", 200, cookie, Null)
    /\ UNCHANGED <<pc, urlVars, htmlVars, rateVars, env, now, ticks, loginAttempts,
                   inflight, sent, failed, issued>>

\* the timer of auth.ts fires
CleanExpiredSessions ==
    /\ sessions' = cleanExpiredSessions(sessions, now)
    /\ response' = NoResponse
    /\ UNCHANGED <<pc, urlVars, htmlVars, rateVars, env, now, ticks, loginAttempts,
                   inflight, sent, failed, issued>>

----------------------------------------------------------------------------
(* The login route under concurrent requests of one client *)

LoginBody(username, password) ==
    [parses |-> TRUE, username |-> username, password |-> password]

LoginRequests ==
    [forwarded : {"1.1.1.1"},
     body : {LoginBody(Admin, PasswordPw), LoginBody(Admin, PasswordPx)}]

LoginDelays == {1, LOCKOUT_DURATION}

\* the clock of the login route is advanced at most MaxLoginTicks times
MaxLoginTicks == 2

\* at most MaxInFlight login requests are being handled at once
MaxInFlight == 2

InitLogin == InitApp(Env(Admin, PasswordPw, TRUE))

TickLogin == TickApp(LoginDelays, MaxLoginTicks)

LoginCheckConcurrent == LoginCheck(LoginRequests, MaxInFlight)

NextLogin == TickLogin \/ LoginCheckConcurrent \/ LoginFinish

SpecLogin == InitLogin /\ [][NextLogin]_vars

----------------------------------------------------------------------------
(* The sessions from login to expiry *)

SessionLogins == [forwarded : {"1.1.1.1"}, body : {LoginBody(Admin, PasswordPw)}]

SessionDelays == {1, SESSION_MAX_AGE * 1000}

\* the clock of the sessions is advanced at most MaxSessionTicks times
MaxSessionTicks == 3

InitSession == InitApp(Env(Admin, PasswordPw, TRUE))

TickSession == TickApp(SessionDelays, MaxSessionTicks)

LoginCheckAlone == LoginCheck(SessionLogins, 1)

NextSession ==
    \/ TickSession
    \/ LoginCheckAlone
    \/ LoginFinish
    \/ ConfigGET
    \/ GetSessionFromRequest
    \/ DestroySession
    \/ CleanExpiredSessions

SpecSession == InitSession /\ [][NextSession]_vars

----------------------------------------------------------------------------
(* The login route on the credentials it can be sent *)

CredentialEnvs ==
    {Env(Undefined, Undefined, TRUE), Env(Admin, Undefined, TRUE),
     Env(Undefined, PasswordPw, FALSE), Env(Admin, PasswordFFFD, TRUE),
     Env(Admin, PasswordFFFD, FALSE), Env(Admin, PasswordPw, TRUE)}

CredentialBodies ==
    {[parses |-> FALSE, username |-> <<>>, password |-> <<>>],
     LoginBody(Admin, <<>>), LoginBody(<<>>, PasswordPw)}
        \cup {LoginBody(username, password) :
                  username \in {Admin, Admim},
                  password \in {PasswordFFFD, PasswordD800, PasswordPw,
                                PasswordPx, PasswordP, TooLong}}

CredentialRequests == [forwarded : {"1.1.1.1", ""}, body : CredentialBodies]

InitCredentials == \E e \in CredentialEnvs : InitApp(e)

LoginCheckCredentials == LoginCheck(CredentialRequests, 1)

NextCredentials == LoginCheckCredentials \/ LoginFinish

SpecCredentials == InitCredentials /\ [][NextCredentials]_vars

----------------------------------------------------------------------------
(* src/app/api/publish/route.ts: the functions *)

MAX_CONTENT_SIZE == 5 * 1024 * 1024

\* the value of the decimal digit c
DigitValue(c) == CHOOSE d \in 0..9 : ToString(d) = c

RECURSIVE DecimalValue(_, _)
\* the number written by the digits s after the number value
DecimalValue(s, value) ==
    IF s = "" THEN value
    ELSE DecimalValue(Tail(s), 10 * value + DigitValue(Ch(s, 1)))

\* parseInt(s) for a string without the prefix 0x: white space is skipped,
\* a sign is read, then the longest run of decimal digits; NaN when there
\* is no digit
parseInt(s) ==
    LET start == SkipIn(s, 1, RegexSpace)
        signed == Ch(s, start) \in {"+", "-"}
        first == IF signed THEN start + 1 ELSE start
        last == SkipIn(s, first, Digits)
        value == DecimalValue(SubSeq(s, first, last - 1), 0)
    IN  IF last = first THEN [nan |-> TRUE, value |-> 0]
        ELSE [nan |-> FALSE,
              value |-> IF signed /\ Ch(s, start) = "-" THEN 0 - value ELSE value]

\* contentLength && parseInt(contentLength) > MAX_CONTENT_SIZE, the header
\* being "" when the request has none
contentLengthTooLarge(contentLength) ==
    /\ contentLength # ""
    /\ ~parseInt(contentLength).nan
    /\ parseInt(contentLength).value > MAX_CONTENT_SIZE

\* A content is its text followed by pad characters "x"; the content that
\* the body does not have is ContentUndefined.
ContentUndefined == [text |-> "", pad |-> -1]

ContentLength(content) == Len(content.text) + content.pad

\* a size test that lets one character more through
contentTooLargePastLimit(content) ==
    /\ content # ContentUndefined
    /\ ContentLength(content) > MAX_CONTENT_SIZE + 1

\* content && content.length > MAX_CONTENT_SIZE
contentTooLarge(content) ==
    /\ content # ContentUndefined
    /\ ContentLength(content) > 0
    /\ ContentLength(content) > MAX_CONTENT_SIZE

SlugChars == {LowerLetters[k] : k \in 1..26} \cup Digits \cup RegexSpace \cup {"-"}

RECURSIVE KeepIn(_, _)
\* s without the characters that are not in set
KeepIn(s, set) ==
    IF s = "" THEN ""
    ELSE (IF Ch(s, 1) \in set THEN Ch(s, 1) ELSE "") \o KeepIn(Tail(s), set)

RECURSIVE SqueezeTo(_, _, _)
\* s with every run of characters of set replaced by with
SqueezeTo(s, set, with) ==
    IF s = "" THEN ""
    ELSE IF Ch(s, 1) \in set
    THEN with \o SqueezeTo(From(s, SkipIn(s, 1, set)), set, with)
    ELSE Ch(s, 1) \o SqueezeTo(Tail(s), set, with)

\* the length a slug is cut to
MaxSlugLength == 100

generateSlug(title) ==
    LET kept == KeepIn(toLowerCase(title), SlugChars)
        hyphened == SqueezeTo(SqueezeTo(kept, RegexSpace, "-"), {"-"}, "-")
        trimmed == TrimStart(TrimEnd(hyphened))
    IN  SubSeq(trimmed, 1, Min({Len(trimmed), MaxSlugLength}))

LineTerminators == {"\n", "\r"}

\* the patterns of sanitizeHtmlForWebflow, by name: for the match at i of s
\* the index after it and what replaces it; end 0 when there is no match
WebflowMatch(pattern, s, i) ==
    LET NoMatch == [end |-> 0, with |-> ""]
        \* <open[^>]*>(group)closing, or <open[^>]*><code[^>]*>(group)closing
        \* when nested, with the lazy group
        Wrapped(open, nested, closing, left, right, oneLine) ==
            LET g == SkipNotIn(s, i + Len(open), {">"})
                inner == IF nested THEN SkipNotIn(s, g + 6, {">"}) ELSE g
                c == IndexOf(s, inner + 1, closing, TRUE)
                group == SubSeq(s, inner + 1, c - 1)
            IN  IF /\ MatchCI(s, i, open)
                   /\ g <= Len(s)
                   /\ nested => MatchCI(s, g + 1, "<code") /\ inner <= Len(s)
                   /\ c > 0
                   /\ oneLine => \A j \in 1..Len(group) : Ch(group, j) \notin LineTerminators
                THEN [end |-> c + Len(closing), with |-> left \o group \o right]
                ELSE NoMatch
    IN  CASE pattern = "preCode" ->
                 Wrapped("<pre", TRUE, "</code></pre>", "<blockquote>", "</blockquote>", FALSE)
          [] pattern = "pre" ->
                 Wrapped("<pre", FALSE, "</pre>", "<blockquote>", "</blockquote>", FALSE)
          [] pattern = "code" ->
                 Wrapped("<code", FALSE, "</code>", "<em>", "</em>", TRUE)
          [] pattern = "hr" ->
                 LET k == SkipIn(s, i + 3, RegexSpace)
                     e == IF Ch(s, k) = "/" THEN k + 1 ELSE k
                 IN  IF MatchCI(s, i, "<hr") /\ Ch(s, e) = ">"
                     THEN [end |-> e + 1, with |-> ""] ELSE NoMatch
          [] pattern = "emptyP" ->
                 LET k == SkipIn(s, i + 3, RegexSpace)
                 IN  IF MatchCI(s, i, "<p>") /\ MatchCI(s, k, "</p>")
                     THEN [end |-> k + 4, with |-> ""] ELSE NoMatch
          [] pattern = "newlines" ->
                 LET k == SkipIn(s, i, {"\n"})
                 IN  IF k - i >= 3 THEN [end |-> k, with |-> "\n\n"] ELSE NoMatch

RECURSIVE webflowReplace(_, _, _)
\* s.replace(pattern, ...) from index i on, for a /g pattern
webflowReplace(s, i, pattern) ==
    LET match == [j \in i..Len(s) |->
                     IF Ch(s, j) \in {"<", "\n"}
                     THEN WebflowMatch(pattern, s, j) ELSE [end |-> 0, with |-> ""]]
        at == {j \in i..Len(s) : match[j].end > j}
    IN  IF at = {} THEN From(s, i)
        ELSE LET j == Min(at)
             IN  SubSeq(s, i, j - 1) \o match[j].with
                     \o webflowReplace(s, match[j].end, pattern)

\* the patterns in the order of the replace calls
WebflowPatterns == <<"preCode", "pre", "code", "hr", "emptyP", "newlines">>

RECURSIVE webflowReplaceFrom(_, _)
\* sanitized after the replace calls from the k-th of WebflowPatterns on
webflowReplaceFrom(sanitized, k) ==
    IF k > Len(WebflowPatterns) THEN sanitized
    ELSE webflowReplaceFrom(webflowReplace(sanitized, 1, WebflowPatterns[k]), k + 1)

\* sanitizeHtmlForWebflow(html) for a content: no pattern has a match that
\* reaches into the pad
sanitizeHtmlForWebflow(content) ==
    [text |-> webflowReplaceFrom(content.text, 1), pad |-> content.pad]

\* new Date(date).toISOString() for a date YYYY-MM-DD up to the 28th of
\* a month, read as midnight UTC, and for a text of letters, an Invalid
\* Date: toISOString throws a RangeError
dateToISOString(date) ==
    CASE /\ Len(date) = 10
         /\ \A j \in {1, 2, 3, 4, 6, 7, 9, 10} : Ch(date, j) \in Digits
         /\ Ch(date, 5) = "-" /\ Ch(date, 8) = "-"
         /\ parseInt(SubSeq(date, 6, 7)).value \in 1..12
         /\ parseInt(SubSeq(date, 9, 10)).value \in 1..28
             -> Returned(date \o "T00:00:00.000Z")
      [] \A j \in 1..Len(date) : Ch(date, j) \in Alpha -> Thrown

----------------------------------------------------------------------------
(* src/app/api/publish/route.ts: POST *)

\* body.metadata of a body without it
MetadataUndefined == [undefined |-> TRUE]

\* a request body that sets the draft flag itself
isDraftOfCaller(json) == json.isDraft

\* isDraft: true
isDraft(json) == TRUE

\* fieldData as POST builds it; the date is set by the caller of this
\* operator, toISOString can throw
fieldDataOf(metadata, slug, sanitizedContent) ==
    LET required == ("name" :> metadata.title) @@ ("slug" :> slug)
                        @@ ("index" :> "index")
                        @@ ("content" :> sanitizedContent)
                        @@ ("_archived" :> FALSE) @@ ("_draft" :> TRUE)
        described == IF metadata.description # ""
                     THEN MapSet(MapSet(required, "card-desc", metadata.description),
                                 "meta-description", metadata.description)
                     ELSE required
        titled == IF metadata.title # ""
                  THEN MapSet(described, "meta-title", metadata.title)
                  ELSE described
        authored == IF metadata.author # ""
                    THEN MapSet(titled, "author", metadata.author)
                    ELSE titled
        dated == IF metadata.date # ""
                 THEN MapSet(authored, "date", dateToISOString(metadata.date).value)
                 ELSE authored
    IN  IF metadata.featured_image # ""
        THEN MapSet(dated, "image",
                    [url |-> metadata.featured_image,
                     alt |-> IF metadata.featured_image_alt # ""
                             THEN metadata.featured_image_alt
                             ELSE metadata.title])
        ELSE dated

\* the request that POST makes with fetch
WebflowRequest(collectionId, apiToken, fieldData, json) ==
    [url |-> "https://api.webflow.com/v2/collections/" \o collectionId \o "/items",
     method |-> "POST",
     authorization |-> "Bearer " \o apiToken,
     body |-> [fieldData |-> fieldData, isDraft |-> isDraft(json)]]

\* the responses of POST
PublishResponse(request, status, error, slug, id) ==
    [route |-> "/api/publish", cookie |-> request.cookie, request |-> request,
     status |-> status, error |-> error, slug |-> slug, id |-> id]

\* what POST answers to what Webflow answered
publishAnswer(request, slug, webflow) ==
    IF webflow.threw THEN PublishResponse(request, 500, "fetch failed", "", "")
    ELSE IF webflow.ok THEN PublishResponse(request, 200, "", slug, webflow.id)
    ELSE IF webflow.status = 401
    THEN PublishResponse(request, 401,
             "Invalid API token. Please check your Webflow API credentials.", "", "")
    ELSE IF webflow.status = 404
    THEN PublishResponse(request, 404,
             "Collection not found. Please verify your Collection ID.", "", "")
    ELSE IF Includes(webflow.message, "field")
    THEN PublishResponse(request, 400,
             "Field mapping error: " \o webflow.message
                 \o ". Your Webflow collection may use different field names. Check the README for field configuration.",
             "", "")
    ELSE PublishResponse(request, webflow.status,
             IF webflow.message # "" THEN webflow.message
             ELSE "Failed to create item in Webflow", "", "")

\* POST(request) at time, Webflow answering webflow to the request if one
\* is made: the response, the session store it leaves and the requests it
\* has made. An exception is answered 500 with the exception's message,
\* here its kind.
publishPOST(request, e, store, time, webflow) ==
    LET got == getSession(store, request.cookie, time)
        json == request.json
        metadata == json.metadata
        content == json.content
        collectionId == IF json.useEnvCredentials THEN e.WEBFLOW_COLLECTION_ID
                        ELSE json.collectionId
        apiToken == IF json.useEnvCredentials THEN e.WEBFLOW_API_TOKEN
                    ELSE json.apiToken
        slug == IF metadata.slug # "" THEN metadata.slug
                ELSE generateSlug(metadata.title)
        sanitizedContent == sanitizeHtmlForWebflow(content)
        Answer(status, error) ==
            [response |-> PublishResponse(request, status, error, "", ""),
             sessions |-> got.store, sent |-> <<>>]
    IN  IF got.session = Null THEN Answer(401, "Authentication required")
        ELSE IF contentLengthTooLarge(request.contentLength)
        THEN Answer(413, "Content too large. Maximum size is 5MB.")
        ELSE IF ~request.parses THEN Answer(500, "SyntaxError")
        ELSE IF contentTooLarge(content)
        THEN Answer(413, "Content too large. Maximum size is 5MB.")
        ELSE IF collectionId = "" \/ apiToken = ""
        THEN Answer(400, "Missing required configuration: collectionId or apiToken. Set environment variables or provide them manually.")
        ELSE IF metadata = MetadataUndefined THEN Answer(500, "TypeError")
        ELSE IF metadata.title = "" THEN Answer(400, "Blog post must have a title")
        ELSE IF content = ContentUndefined THEN Answer(500, "TypeError")
        ELSE IF metadata.date # "" /\ dateToISOString(metadata.date).threw
        THEN Answer(500, "RangeError")
        ELSE [response |-> publishAnswer(request, slug, webflow),
              sessions |-> got.store,
              sent |-> <<WebflowRequest(collectionId, apiToken,
                                        fieldDataOf(metadata, slug, sanitizedContent),
                                        json)>>]

----------------------------------------------------------------------------
(* The clients of the publish route *)

Content(text, pad) == [text |-> text, pad |-> pad]

ContentTexts == {"<p>hi</p>", "<pre>X</pre>", "<pre><code>c</code></pre>\n\n\n<hr>"}

\* short contents, contents of MAX_CONTENT_SIZE characters and of one more
Contents ==
    {Content(text, pad) :
         text \in ContentTexts,
         pad \in {0, MAX_CONTENT_SIZE - 20, MAX_CONTENT_SIZE - 19}}
        \cup {Content(text, MAX_CONTENT_SIZE - Len(text)) : text \in ContentTexts}
        \cup {Content(text, MAX_CONTENT_SIZE - Len(text) + 1) : text \in ContentTexts}
        \cup {Content("", 0), ContentUndefined}

DefaultMetadata ==
    [title |-> "My Post!", slug |-> "", description |-> "", author |-> "",
     date |-> "", featured_image |-> "", featured_image_alt |-> "",
     _draft |-> TRUE, _archived |-> FALSE]

Metadatas ==
    {DefaultMetadata,
     [DefaultMetadata EXCEPT !.title = ""],
     [DefaultMetadata EXCEPT !.slug = "custom-slug"],
     [DefaultMetadata EXCEPT !.description = "About", !.author = "Ann"],
     [DefaultMetadata EXCEPT !.date = "2024-01-15"],
     [DefaultMetadata EXCEPT !.date = "soon"],
     [DefaultMetadata EXCEPT !.featured_image = "https://example.com/i.png"],
     [DefaultMetadata EXCEPT !._draft = FALSE, !._archived = TRUE],
     MetadataUndefined}

DefaultJson ==
    [metadata |-> DefaultMetadata, content |-> Content("<p>hi</p>", 0),
     useEnvCredentials |-> TRUE, collectionId |-> "", apiToken |-> "",
     isDraft |-> TRUE]

Jsons ==
    {[DefaultJson EXCEPT !.metadata = metadata] : metadata \in Metadatas}
        \cup {[DefaultJson EXCEPT !.content = content] : content \in Contents}
        \cup {[DefaultJson EXCEPT !.useEnvCredentials = FALSE],
              [DefaultJson EXCEPT !.useEnvCredentials = FALSE,
                                  !.collectionId = "c1", !.apiToken = "token"],
              [DefaultJson EXCEPT !.isDraft = FALSE]}

ContentLengths == {"", "100", "5242880", "5242881", "abc", " 5242881xyz"}

PublishRequests ==
    [cookie : SessionCookies, contentLength : {""}, parses : {TRUE}, json : Jsons]
        \cup [cookie : SessionCookies, contentLength : ContentLengths,
              parses : {TRUE},
              json : {DefaultJson,
                      [DefaultJson EXCEPT !.content =
                           Content("<p>hi</p>", MAX_CONTENT_SIZE)]}]
        \cup [cookie : SessionCookies, contentLength : {""}, parses : {FALSE},
              json : {DefaultJson}]

WebflowAnswer(rejected, ok, status, id, message) ==
    [threw |-> rejected, ok |-> ok, status |-> status, id |-> id, message |-> message]

\* fetch is rejected
NoWebflowAnswer == WebflowAnswer(TRUE, FALSE, 0, "", "")

WebflowAnswers ==
    {WebflowAnswer(FALSE, TRUE, 202, "item1", ""),
     WebflowAnswer(FALSE, FALSE, 401, "", "Unauthorized"),
     WebflowAnswer(FALSE, FALSE, 404, "", "Not found"),
     WebflowAnswer(FALSE, FALSE, 400, "", "Validation Error: unknown field"),
     WebflowAnswer(FALSE, FALSE, 500, "", ""),
     NoWebflowAnswer}

PublishEnvs ==
    {Env(Admin, PasswordPw, TRUE),
     [Env(Admin, PasswordPw, TRUE) EXCEPT !.WEBFLOW_COLLECTION_ID = "col",
                                          !.WEBFLOW_API_TOKEN = "secret"]}

PublishDelays == {1, SESSION_MAX_AGE * 1000}

\* the clock of the publish route is advanced at most MaxPublishTicks times
MaxPublishTicks == 2

\* the server has created no session, or the session t1 at time 0
InitPublish ==
    \/ \E e \in PublishEnvs : InitApp(e)
    \/ \E e \in PublishEnvs :
           InitAppWith(e, createSession(EmptyMap, Admin, "t1", 0), "t1" :> 0)

TickPublish == TickApp(PublishDelays, MaxPublishTicks)

\* POST /api/publish
PublishPOST ==
    /\ \E request \in PublishRequests :
       \E webflow \in WebflowAnswers :
           LET done == publishPOST(request, env, sessions, now, webflow)
           IN  /\ done.sent = <<>> => webflow = NoWebflowAnswer
               /\ sessions' = done.sessions
               /\ response' = done.response
               /\ sent' = done.sent
    /\ UNCHANGED <<pc, urlVars, htmlVars, rateVars, env, now, ticks, loginAttempts,
                   inflight, failed, issued>>

\* the last response has left the server
Idle == response = NoResponse

\* the response is delivered to the client
Deliver ==
    /\ ~Idle
    /\ response' = NoResponse
    /\ sent' = <<>>
    /\ UNCHANGED <<pc, urlVars, htmlVars, rateVars, env, now, ticks, loginAttempts,
                   sessions, inflight, failed, issued>>

\* the clients send a request when the response to the last one has come
NextPublish ==
    \/ Idle /\ TickPublish
    \/ Idle /\ PublishPOST
    \/ Idle /\ ConfigGET
    \/ Deliver

SpecPublish == InitPublish /\ [][NextPublish]_vars

----------------------------------------------------------------------------
(* The output as a browser reads it: the start tags of a string, in       *)
(* order, each with its attributes (HTML tokenizer: tag open, tag name,   *)
(* attribute name and value states, comments, script and style as raw     *)
(* text; a repeated attribute name is dropped; character references are   *)
(* not decoded).                                                          *)

HtmlSpace == {" ", "\t", "\n", "\r", "\f"}

RECURSIVE AttributesFrom(_, _)
\* the attributes from index i of a start tag on, and the index after the
\* tag's '>' (0 when the string ends inside the tag)
AttributesFrom(s, i) ==
    LET j == SkipIn(s, i, HtmlSpace \cup {"/"})
        ne == SkipNotIn(s, j + 1, HtmlSpace \cup {"/", ">", "="})
        a == SkipIn(s, ne, HtmlSpace)
        hasValue == Ch(s, a) = "="
        v == SkipIn(s, a + 1, HtmlSpace)
        quoted == Ch(s, v) \in Quotes
        ve == IF quoted THEN SkipNotIn(s, v + 1, {Ch(s, v)})
              ELSE SkipNotIn(s, v, HtmlSpace \cup {">"})
        value == IF ~hasValue THEN ""
                 ELSE IF quoted THEN SubSeq(s, v + 1, ve - 1)
                 ELSE SubSeq(s, v, ve - 1)
        after == IF ~hasValue THEN ne ELSE IF quoted THEN ve + 1 ELSE ve
        rest == AttributesFrom(s, after)
    IN  IF j > Len(s) THEN [attributes |-> <<>>, next |-> 0]
        ELSE IF Ch(s, j) = ">" THEN [attributes |-> <<>>, next |-> j + 1]
        ELSE IF hasValue /\ quoted /\ ve > Len(s) THEN [attributes |-> <<>>, next |-> 0]
        ELSE [attributes |-> <<Attr(toLowerCase(SubSeq(s, j, ne - 1)), value)>>
                              \o rest.attributes,
              next |-> rest.next]

\* the attributes whose name no earlier attribute has
FirstOfEachName(attrs) ==
    LET firsts == SelectSeq([k \in 1..Len(attrs) |-> k],
                            LAMBDA k : \A m \in 1..(k - 1) : attrs[m].name # attrs[k].name)
    IN  [j \in 1..Len(firsts) |-> attrs[firsts[j]]]

RECURSIVE StartTags(_, _)
StartTags(s, i) ==
    LET j == SkipNotIn(s, i, {"<"})
        ne == SkipNotIn(s, j + 1, HtmlSpace \cup {"/", ">"})
        name == toLowerCase(SubSeq(s, j + 1, ne - 1))
        as == AttributesFrom(s, ne)
        commentEnd == IndexOf(s, j + 4, "-->", FALSE)
        rawEnd == IndexOf(s, as.next, "</" \o name, TRUE)
    IN  IF j > Len(s) THEN <<>>
        ELSE IF StartsWithAt(s, j, "<!--")
        THEN IF commentEnd = 0 THEN <<>> ELSE StartTags(s, commentEnd + 3)
        ELSE IF Ch(s, j + 1) \in Alpha
        THEN IF as.next = 0 THEN <<>>
             ELSE <<[name |-> name, attributes |-> FirstOfEachName(as.attributes)]>>
                  \o (IF name \in {"script", "style"}
                      THEN IF rawEnd = 0 THEN <<>> ELSE StartTags(s, rawEnd)
                      ELSE StartTags(s, as.next))
        ELSE StartTags(s, j + 1)

\* the start tags of the markup s
Tags(s) == StartTags(s, 1)

\* the value of attribute n of start tag t, "" when t has none
AttributeOf(t, n) ==
    IF \E k \in 1..Len(t.attributes) : t.attributes[k].name = n
    THEN t.attributes[CHOOSE k \in 1..Len(t.attributes) : t.attributes[k].name = n].value
    ELSE ""

HasAttribute(t, n) == \E k \in 1..Len(t.attributes) : t.attributes[k].name = n

RECURSIVE Elements(_)
\* the elements of a node list at every depth, in document order
Elements(nodes) ==
    IF nodes = <<>> THEN <<>>
    ELSE (IF Head(nodes).nodeType = ELEMENT_NODE
          THEN <<Head(nodes)>> \o Elements(Head(nodes).childNodes)
          ELSE <<>>)
         \o Elements(Tail(nodes))

\* the attribute names the allowlist tables permit on a tag: the tag's own
\* set and the wildcard set {class, id}
Permitted(tag) ==
    (CASE tag = "a" -> {"href", "title", "target", "rel"}
       [] tag = "img" -> {"src", "alt", "title", "width", "height"}
       [] tag = "td" -> {"colspan", "rowspan"}
       [] tag = "th" -> {"colspan", "rowspan", "scope"}
       [] OTHER -> {})
    \cup {"class", "id"}

----------------------------------------------------------------------------
(* The guarantees of the sanitizer's output, on markup *)

\* no tag outside the allowlist
OnlyAllowedTags(s) ==
    \A k \in 1..Len(Tags(s)) : Tags(s)[k].name \in ALLOWED_TAGS

\* no attribute outside the permitted sets
OnlyPermittedAttributes(s) ==
    \A k \in 1..Len(Tags(s)) :
        \A m \in 1..Len(Tags(s)[k].attributes) :
            Tags(s)[k].attributes[m].name \in Permitted(Tags(s)[k].name)

\* no comment
NoComment(s) == ~Includes(s, "<!--")

\* no href or src that isSafeUrl classifies unsafe
NoUnsafeUrl(s) ==
    \A k \in 1..Len(Tags(s)) :
        \A m \in 1..Len(Tags(s)[k].attributes) :
            Tags(s)[k].attributes[m].name \in {"href", "src"}
                => isSafeUrl(Tags(s)[k].attributes[m].value)

\* every link carries rel="noopener noreferrer"
LinksHardened(s) ==
    \A k \in 1..Len(Tags(s)) :
        Tags(s)[k].name = "a" => AttributeOf(Tags(s)[k], "rel") = "noopener noreferrer"

----------------------------------------------------------------------------
(* Claims *)

\* C1: after the tree-based sanitizer has run on the body, every element
\* left in the tree, at any depth, has a tag name in ALLOWED_TAGS and only
\* attributes permitted for its tag.
C1_TreeHoldsOnlyAllowed ==
    (pc = "done" /\ hasWindow) =>
        \A k \in 1..Len(Elements(body)) :
            LET e == Elements(body)[k]
            IN  /\ toLowerCase(e.tagName) \in ALLOWED_TAGS
                /\ \A m \in 1..Len(e.attributes) :
                      e.attributes[m].name \in Permitted(toLowerCase(e.tagName))

\* C2: whichever strategy sanitizeHtml selects, every a element of the
\* output carries rel="noopener noreferrer".
C2_EveryLinkHardened == pc = "done" => LinksHardened(out)

\* C3: the output of sanitizeHtml contains no comment and no part of a
\* comment's content, wherever the comment was in the input.
C3_NoCommentInOutput ==
    pc = "done" => NoComment(out) /\ ~Includes(out, "[if IE]")

\* C4: sanitizing the output of sanitizeHtml again gives the same output,
\* in each strategy.
C4_Idempotent == pc = "again" => out2 = out

\* C5: the content of a script element never appears in the output of
\* sanitizeHtml.
C5_ScriptContentDiscarded == pc = "done" => ~Includes(out, "steal()")

\* C6: no element of the output of sanitizeHtml carries an href or src
\* that isSafeUrl classifies unsafe.
C6_NoUnsafeUrlInOutput == pc = "done" => NoUnsafeUrl(out)

\* the attributes of an element that the tree-based sanitizer has to keep
\* as they are: permitted for the tag, safe when href or src, free of
\* javascript:, and not the rel of a link
HasToStay(tag, at) ==
    /\ at.name \in Permitted(tag)
    /\ at.name \in {"href", "src"} => isSafeUrl(at.value)
    /\ ~Includes(toLowerCase(at.value), "javascript:")
    /\ ~(tag = "a" /\ at.name = "rel")

\* the elements with an allowlisted tag at every depth, in document order
AllowedElements(nodes) ==
    SelectSeq(Elements(nodes), LAMBDA e : toLowerCase(e.tagName) \in ALLOWED_TAGS)

\* C7: the tree-based sanitizer keeps what is allowed: every element with
\* an allowlisted tag stays in the output, in document order, and each of
\* its attributes that is permitted for the tag, safe when it is href or
\* src, and free of javascript: keeps its value (other than rel on a).
C7_AllowedIsKept ==
    (pc = "done" /\ hasWindow) =>
        LET in == AllowedElements(tree)
            kept == AllowedElements(body)
        IN  /\ Len(kept) = Len(in)
            /\ \A k \in 1..Len(in) :
                  /\ kept[k].tagName = in[k].tagName
                  /\ \A m \in 1..Len(in[k].attributes) :
                        HasToStay(toLowerCase(in[k].tagName), in[k].attributes[m])
                            => \E n \in 1..Len(kept[k].attributes) :
                                  kept[k].attributes[n] = in[k].attributes[m]

\* C7 witness: the table row went through the tree-based sanitizer and its
\* td kept colspan="2".
C7_Witness ==
    /\ pc = "done"
    /\ hasWindow
    /\ tree = <<TableRow>>
    /\ out = "<table><tbody><tr><td colspan=\"2\">x</td></tr></tbody></table>"

\* C8: for every input, the output of the text-based strategy satisfies
\* each guarantee that the output of the tree-based strategy satisfies.
C8_TextAsSafeAsTree ==
    pc = "done" =>
        LET dom == sanitizeHtmlDOM(tree)
            text == sanitizeHtmlRegex(html)
        IN  /\ OnlyAllowedTags(dom) => OnlyAllowedTags(text)
            /\ OnlyPermittedAttributes(dom) => OnlyPermittedAttributes(text)
            /\ NoComment(dom) => NoComment(text)
            /\ NoUnsafeUrl(dom) => NoUnsafeUrl(text)
            /\ LinksHardened(dom) => LinksHardened(text)

\* C9: isSafeUrl(raw) is true exactly when raw starts with /, #, ./ or ../,
\* or raw parses as an absolute URL whose scheme is http:, https: or
\* mailto:, or raw does not parse and starts literally with http://,
\* https:// or mailto:.
C9_IsSafeUrlExactly ==
    pc = "done" =>
        (safe <=>
            \/ \E p \in {"/", "#", "./", "../"} : StartsWith(url, p)
            \/ /\ URLParse(url).ok
               /\ URLParse(url).protocol \in {"http:", "https:", "mailto:"}
            \/ /\ ~URLParse(url).ok
               /\ \E p \in {"http://", "https://", "mailto:"} : StartsWith(url, p))

\* C9 witness: a string that does not parse and starts with http:// was
\* classified safe.
C9_Witness == pc = "done" /\ url = "http://" /\ ~URLParse(url).ok /\ safe

\* C10 as claimed: every string that does not parse as an absolute URL is
\* classified unsafe, unless it starts with /, #, ./ or ../.
C10_FailsClosed ==
    (/\ pc = "done"
     /\ ~URLParse(url).ok
     /\ ~\E p \in {"/", "#", "./", "../"} : StartsWith(url, p))
        => ~safe

\* C10 as amended: every string that does not parse as an absolute URL is
\* classified unsafe, unless it starts with /, #, ./ or ../ or literally
\* with http://, https:// or mailto:.
C10_FailsClosedButForSchemePrefix ==
    (/\ pc = "done"
     /\ ~URLParse(url).ok
     /\ ~\E p \in {"/", "#", "./", "../", "http://", "https://", "mailto:"} :
            StartsWith(url, p))
        => ~safe

\* C10 witness: a string that does not parse and has none of the prefixes
\* was classified unsafe.
C10_Witness == pc = "done" /\ url = "HTTP://" /\ ~URLParse(url).ok /\ ~safe

\* C11: sanitizeHtml is total: in both strategies a call that has ended
\* has returned a string, and no exception has reached the caller, also
\* when the markup carries URLs that new URL rejects.
C11_SanitizeHtmlTotal ==
    pc \in {"done", "again"} =>
        /\ ~threw
        /\ out \in STRING
        /\ pc = "again" => out2 \in STRING

\* C11 witness: in a browser, a link whose href new URL rejects went
\* through sanitizeHtml, which returned the link with the href intact.
C11_Witness ==
    /\ pc = "done"
    /\ hasWindow
    /\ html = "<a href=\"http://\"></a>"
    /\ newURL("http://").threw
    /\ ~threw
    /\ out = "<a href=\"http://\" rel=\"noopener noreferrer\"></a>"

\* C13: for each client IP, the 60 seconds that end now never hold more
\* than 30 requests to /api/ paths that the middleware has let through.
C13_AtMost30InAny60Seconds ==
    \A key \in DOMAIN passed :
        Len(Since(passed[key], now - RATE_LIMIT_WINDOW)) <= RATE_LIMIT_MAX_REQUESTS

\* C14: while the window of a key lasts, the count of its entry is the
\* number of requests checkRateLimit has allowed since the window began and
\* is at most 30; a request answered 429 leaves the store as it was.
C14_WindowAllowsAtMost30 ==
    /\ [](\A key \in DOMAIN rateLimitStore :
            LET entry == rateLimitStore[key]
            IN  /\ entry.count <= RATE_LIMIT_MAX_REQUESTS
                /\ now <= entry.resetTime =>
                       /\ key \in DOMAIN passed
                       /\ entry.count =
                              Len(Since(passed[key],
                                        entry.resetTime - RATE_LIMIT_WINDOW)))
    /\ [][response'.status = 429 => rateLimitStore' = rateLimitStore]_vars

C14_Witness ==
    /\ response.status = 429
    /\ \E key \in DOMAIN rateLimitStore :
           /\ rateLimitStore[key].count = RATE_LIMIT_MAX_REQUESTS
           /\ now <= rateLimitStore[key].resetTime
           /\ now > RATE_LIMIT_WINDOW
           /\ Len(passed[key]) = RATE_LIMIT_MAX_REQUESTS

\* the five wrong-credential attempts of ip have come within 15 minutes
\* and the fifth is at most 15 minutes old
FiveFailedAttempts(ip) ==
    /\ ip \in DOMAIN failed
    /\ Len(failed[ip]) >= MAX_LOGIN_ATTEMPTS
    /\ failed[ip][MAX_LOGIN_ATTEMPTS] - failed[ip][1] <= LOCKOUT_DURATION
    /\ now <= failed[ip][MAX_LOGIN_ATTEMPTS] + LOCKOUT_DURATION

\* C12: in the 15 minutes after the fifth failed login attempt of a client
\* IP no POST /api/auth/login of that IP passes checkLoginAttempts: each is
\* answered 429.
C12_LockedOutFor15Minutes ==
    [][\A h \in BagToSet(inflight') :
           FiveFailedAttempts(h.ip) =>
               CopiesIn(h, inflight') <= CopiesIn(h, inflight)]_vars

TwentyFourHours == 24 * 60 * 60 * 1000

\* C15: every session in the store expires 24 hours after its createSession;
\* getSession (called by GET /api/config) and getSessionFromRequest return
\* the session of a token exactly while it is in the store and now is not
\* past its expiry, otherwise they return null and the entry is gone
\* afterwards; no step moves the expiry of a session.
C15_SessionExpiresAfter24Hours ==
    /\ [](\A token \in DOMAIN sessions :
            /\ token \in DOMAIN issued
            /\ sessions[token].expires = issued[token] + TwentyFourHours)
    /\ [][response'.route \in {"/api/config", "getSessionFromRequest"} =>
              LET token == response'.cookie
              IN  /\ response'.session # Null <=>
                         /\ token \in DOMAIN sessions
                         /\ now <= sessions[token].expires
                  /\ response'.session # Null =>
                         response'.session.username = sessions[token].username
                  /\ response'.session = Null => token \notin DOMAIN sessions']_vars
    /\ [][\A token \in DOMAIN sessions \cap DOMAIN sessions' :
              sessions'[token].expires = sessions[token].expires]_vars

C15_Witness ==
    /\ response.route = "getSessionFromRequest"
    /\ response.session = Null
    /\ response.cookie \in DOMAIN issued
    /\ now = issued[response.cookie] + TwentyFourHours + 1
    /\ response.cookie \notin DOMAIN sessions
    /\ \E token \in DOMAIN sessions : now = sessions[token].expires

\* C17: a login request whose username and password reach
\* validateCredentials is answered as a successful login if and only if
\* AUTH_USERNAME and AUTH_PASSWORD are both set and equal the username and
\* the password code unit for code unit; while one of the two variables is
\* unset the store holds no session.
C17_ValidExactlyWhenEqual ==
    /\ [][\A h \in BagToSet(inflight) :
              (/\ inflight' = EmptyBag
               /\ h.body.parses
               /\ ~Falsy(h.body.username) /\ ~Falsy(h.body.password)
               /\ Len(h.body.username) <= MaxCredentialLength
               /\ Len(h.body.password) <= MaxCredentialLength)
              => (response'.status = 200 <=>
                      /\ env.AUTH_USERNAME # Undefined
                      /\ env.AUTH_PASSWORD # Undefined
                      /\ h.body.username = env.AUTH_USERNAME
                      /\ h.body.password = env.AUTH_PASSWORD)]_vars
    /\ [](env.AUTH_USERNAME = Undefined \/ env.AUTH_PASSWORD = Undefined
              => sessions = EmptyMap)

\* the cookie value token names a session in the store that has not expired
ValidSession(token) ==
    /\ token \in DOMAIN sessions
    /\ now <= sessions[token].expires

\* C16: POST /api/publish makes a request to Webflow, and GET /api/config
\* answers with the configuration, only for a cookie that names a stored,
\* unexpired session; every other request (no cookie, unknown token,
\* expired token) is answered 401 'Authentication required' and no request
\* is made to Webflow.
C16_OnlyWithValidSession ==
    [][response'.route \in {"/api/publish", "/api/config"} =>
           /\ ~ValidSession(response'.cookie) =>
                  /\ response'.status = 401
                  /\ response'.error = "Authentication required"
                  /\ sent' = <<>>
           /\ sent' # <<>> => ValidSession(response'.cookie)
           /\ response'.route = "/api/config" /\ response'.status = 200 =>
                  ValidSession(response'.cookie)]_vars

C16_Witness ==
    /\ response.route = "/api/publish"
    /\ response.status = 401
    /\ response.cookie \in DOMAIN issued
    /\ now > issued[response.cookie] + TwentyFourHours
    /\ response.request.json = DefaultJson
    /\ env.WEBFLOW_API_TOKEN # ""
    /\ sent = <<>>

\* C18: every request that POST /api/publish has made to Webflow creates a
\* draft: isDraft is true, fieldData._draft is true and fieldData._archived
\* is false, whatever flags the body of the caller carries.
C18_AlwaysDraft ==
    \A k \in 1..Len(sent) :
        /\ sent[k].method = "POST"
        /\ sent[k].body.isDraft = TRUE
        /\ sent[k].body.fieldData["_draft"] = TRUE
        /\ sent[k].body.fieldData["_archived"] = FALSE

C18_Witness ==
    /\ Len(sent) = 1
    /\ response.route = "/api/publish"
    /\ response.status = 200
    /\ response.request.json.isDraft = FALSE
    /\ sent[1].body.isDraft = TRUE

FiveMB == 5 * 1024 * 1024

\* the Content-Length header of the request is a number above 5 MB
HeaderExceeds(request) ==
    /\ request.contentLength # ""
    /\ ~parseInt(request.contentLength).nan
    /\ parseInt(request.contentLength).value > FiveMB

\* the body of the request has a content string longer than 5 MB
ContentExceeds(request) ==
    /\ request.parses
    /\ request.json.content # ContentUndefined
    /\ ContentLength(request.json.content) > FiveMB

\* C19 as stated: POST /api/publish answers 413 and makes no request to
\* Webflow whenever the Content-Length header or the length of the content
\* exceeds 5*1024*1024, and no content above that length is forwarded.
C19_RejectsOversized ==
    /\ response.route = "/api/publish"
       /\ (HeaderExceeds(response.request) \/ ContentExceeds(response.request))
           => response.status = 413 /\ sent = <<>>
    /\ \A k \in 1..Len(sent) :
           ContentLength(sent[k].body.fieldData["content"]) <= FiveMB

\* C19 amended: for a request with a valid session POST /api/publish
\* answers 413 and makes no request to Webflow whenever the Content-Length
\* header is a number above 5*1024*1024 or the content is longer than that;
\* whenever a request is made to Webflow the content received was at most
\* 5*1024*1024 long.
C19_RejectsOversizedOfSession ==
    [][response'.route = "/api/publish" =>
           /\ /\ ValidSession(response'.cookie)
              /\ \/ HeaderExceeds(response'.request)
                 \/ ContentExceeds(response'.request)
              => response'.status = 413 /\ sent' = <<>>
           /\ sent' # <<>> =>
                  /\ ~HeaderExceeds(response'.request)
                  /\ ~ContentExceeds(response'.request)]_vars

C19_Witness ==
    /\ response.route = "/api/publish"
    /\ response.status = 413
    /\ response.cookie \in DOMAIN sessions
    /\ now <= sessions[response.cookie].expires
    /\ response.request.contentLength = ""
    /\ ContentLength(response.request.json.content) = FiveMB + 1
    /\ sent = <<>>

\* the input tree has an element that sanitizeNode removes
HasDisallowedElement ==
    \E k \in 1..Len(Elements(tree)) :
        toLowerCase(Elements(tree)[k].tagName) \notin ALLOWED_TAGS

\* C20: when the tree-based sanitizer has removed a disallowed element and
\* moved its children into the parent, the serialized output shows them
\* sanitized: no disallowed tag, no attribute that is not permitted, every
\* a element with the forced rel, no comment.
C20_SplicedChildrenSanitized ==
    (pc = "done" /\ hasWindow /\ HasDisallowedElement) =>
        /\ OnlyAllowedTags(out)
        /\ OnlyPermittedAttributes(out)
        /\ LinksHardened(out)
        /\ NoComment(out)

\* the element and text nodes of a node list at every depth, in document
\* order, each as its node type with its tag name or its text
DocumentOrder(nodes) ==
    LET RECURSIVE Walk(_)
        Walk(ns) ==
            IF ns = <<>> THEN <<>>
            ELSE LET n == Head(ns)
                 IN  (CASE n.nodeType = ELEMENT_NODE ->
                             <<[nodeType |-> ELEMENT_NODE, name |-> n.tagName]>>
                             \o Walk(n.childNodes)
                        [] n.nodeType = TEXT_NODE ->
                             <<[nodeType |-> TEXT_NODE, name |-> n.data]>>
                        [] OTHER -> <<>>)
                     \o Walk(Tail(ns))
    IN  Walk(nodes)

\* a can be got from b by deleting members of b
IsSubsequence(a, b) ==
    LET RECURSIVE Sub(_, _)
        Sub(x, y) ==
            IF x = <<>> THEN TRUE
            ELSE IF y = <<>> THEN FALSE
            ELSE IF Head(x) = Head(y) THEN Sub(Tail(x), Tail(y))
            ELSE Sub(x, Tail(y))
    IN  Sub(a, b)

\* a node of document order that is a text node or an allowed element
TextOrAllowed(n) ==
    n.nodeType = TEXT_NODE \/ toLowerCase(n.name) \in ALLOWED_TAGS

\* C21: when the tree-based sanitizer drops a disallowed element, the
\* element and text nodes of the output are in the document order they had
\* in the input: the output's nodes are the input's with some elements
\* deleted, and no text node and no allowed element is among the deleted.
C21_DocumentOrderKept ==
    (pc = "done" /\ hasWindow) =>
        /\ IsSubsequence(DocumentOrder(body), DocumentOrder(tree))
        /\ SelectSeq(DocumentOrder(body), TextOrAllowed)
               = SelectSeq(DocumentOrder(tree), TextOrAllowed)

\* C21 witness: <foo>hello</foo> followed by a div went through the
\* tree-based sanitizer, and the text of foo is where foo was, before the
\* div.
C21_Witness ==
    /\ pc = "done"
    /\ hasWindow
    /\ HasDisallowedElement
    /\ html = "<foo>hello</foo><div class=\"c\" style=\"color:red\"></div>"
    /\ out = "hello<div class=\"c\"></div>"

\* the img elements of a sequence of elements whose src is a data: URI
DataImages(elements) ==
    SelectSeq(elements,
              LAMBDA e : /\ e.tagName = "IMG"
                         /\ \E m \in 1..Len(e.attributes) :
                               /\ e.attributes[m].name = "src"
                               /\ StartsWith(e.attributes[m].value, "data:"))

\* the elements of a node list that lie inside a disallowed element none
\* of whose ancestors is disallowed, in document order
InsideDisallowed(nodes) ==
    LET RECURSIVE Walk(_)
        Walk(ns) ==
            IF ns = <<>> THEN <<>>
            ELSE LET n == Head(ns)
                 IN  (IF n.nodeType # ELEMENT_NODE THEN <<>>
                      ELSE IF toLowerCase(n.tagName) \in ALLOWED_TAGS
                      THEN Walk(n.childNodes)
                      ELSE Elements(n.childNodes))
                     \o Walk(Tail(ns))
    IN  Walk(nodes)

\* C22 as claimed: in tree mode an img element whose src is a data: URI
\* keeps that src: the output tree has as many img elements with a data:
\* src as the input.
C22_DataSrcSurvives ==
    (pc = "done" /\ hasWindow) =>
        DataImages(Elements(body)) = DataImages(Elements(tree))

\* C22 as amended: in tree mode a data: src gets no treatment of its own
\* and is judged by isSafeUrl, which classifies it unsafe: the img elements
\* left with a data: src are those inside a disallowed element, which
\* sanitizeNode moves without visiting them; every other img has lost it.
C22_DataSrcRemovedByIsSafeUrl ==
    (pc = "done" /\ hasWindow) =>
        /\ ~isSafeUrl("data:image/png;base64,AAAA")
        /\ DataImages(Elements(body)) = DataImages(InsideDisallowed(tree))

\* C22 witness: an img with a data: src went through the tree-based
\* sanitizer and came out without the src.
C22_Witness ==
    /\ pc = "done"
    /\ hasWindow
    /\ html = "<img src=\"data:image/png;base64,AAAA\" alt=\"pic\">"
    /\ out = "<img alt=\"pic\">"

\* C23: the output of the text-based sanitizer contains no occurrence of
\* javascript: in any letter case, for every input.
C23_NoJavascriptInTextOutput ==
    (pc = "done" /\ ~hasWindow) => ~Includes(toLowerCase(out), "javascript:")

\* the start tags of the markup s as they are written: every attribute in
\* its place, a repeated name included
TagsAsWritten(s) ==
    LET RECURSIVE From1(_)
        From1(i) ==
            LET j == SkipNotIn(s, i, {"<"})
                ne == SkipNotIn(s, j + 1, HtmlSpace \cup {"/", ">"})
                name == toLowerCase(SubSeq(s, j + 1, ne - 1))
                as == AttributesFrom(s, ne)
                commentEnd == IndexOf(s, j + 4, "-->", FALSE)
                rawEnd == IndexOf(s, as.next, "</" \o name, TRUE)
            IN  IF j > Len(s) THEN <<>>
                ELSE IF StartsWithAt(s, j, "<!--")
                THEN IF commentEnd = 0 THEN <<>> ELSE From1(commentEnd + 3)
                ELSE IF Ch(s, j + 1) \in Alpha
                THEN IF as.next = 0 THEN <<>>
                     ELSE <<[name |-> name, attributes |-> as.attributes]>>
                          \o (IF name \in {"script", "style"}
                              THEN IF rawEnd = 0 THEN <<>> ELSE From1(rawEnd)
                              ELSE From1(as.next))
                ELSE From1(j + 1)
    IN  From1(1)

\* an a start tag that has an href and a rel
LinkWithRel(tag) ==
    tag.name = "a" /\ HasAttribute(tag, "href") /\ HasAttribute(tag, "rel")

\* C24: the rel injection of the text pipeline is additive: an a start tag
\* that has a quoted href and a rel when the injection runs keeps every
\* attribute it has, the rel included, and has rel="noopener noreferrer"
\* after them as its last attribute; these tags come out in their order.
C24_RelInjectionAdditive ==
    (pc = "done" /\ ~hasWindow) =>
        LET before == SelectSeq(TagsAsWritten(deleteFrom(html, 1)), LinkWithRel)
            injected == [k \in 1..Len(before) |->
                            [name |-> "a",
                             attributes |->
                                 Append(before[k].attributes,
                                        Attr("rel", "noopener noreferrer"))]]
        IN  IsSubsequence(injected, TagsAsWritten(out))

\* C24 witness: a link with rel="nofollow" went through the text pipeline
\* and carries both rel attributes, nofollow first.
C24_Witness ==
    /\ pc = "done"
    /\ ~hasWindow
    /\ html = "<a href=\"/p\" rel=\"nofollow\">"
    /\ out = "<a href=\"/p\" rel=\"nofollow\" rel=\"noopener noreferrer\">"

\* the text nodes of a node list at every depth, in document order, each
\* as its text
TextNodes(nodes) ==
    LET order == SelectSeq(DocumentOrder(nodes), LAMBDA n : n.nodeType = TEXT_NODE)
    IN  [k \in 1..Len(order) |-> order[k].name]

\* C25: the tree-based sanitizer never changes, removes or reorders a text
\* node: the text nodes of the body after sanitizeNode are, in document
\* order, those of the input tree.
C25_TextNodesUntouched ==
    (pc = "done" /\ hasWindow) => TextNodes(body) = TextNodes(tree)

\* C25 witness: a text node followed by a script element went through the
\* tree-based sanitizer; the body holds both text nodes, in order.
C25_Witness ==
    /\ pc = "done"
    /\ hasWindow
    /\ html = "hello<script>steal()</script>"
    /\ TextNodes(tree) = <<"hello", "steal()">>
    /\ body = <<Text("hello"), Text("steal()")>>

\* the wrong-credential validations of ip within the lockout window of its
\* entry, the 15 minutes that end at the entry's resetTime
FailedInWindow(ip) ==
    IF ip \in DOMAIN failed
    THEN SelectSeq(failed[ip],
                   LAMBDA t : /\ t >= loginAttempts[ip].resetTime - LOCKOUT_DURATION
                              /\ t <= loginAttempts[ip].resetTime)
    ELSE <<>>

\* C26: also when login requests of one IP are handled concurrently, at
\* most MAX_LOGIN_ATTEMPTS validations of wrong credentials are performed
\* for that IP within one lockout window.
C26_AtMostFiveValidationsPerWindow ==
    \A ip \in DOMAIN loginAttempts :
        Len(FailedInWindow(ip)) <= MAX_LOGIN_ATTEMPTS

\* the failure count of ip is at the limit and its window has not expired
AtLimit(ip) ==
    /\ ip \in DOMAIN loginAttempts
    /\ loginAttempts[ip].count >= MAX_LOGIN_ATTEMPTS
    /\ loginAttempts[ip].resetTime >= now

\* a step in which POST /api/auth/login checks a request of ip: it answers
\* that client without a handler having finished
ChecksRequestOf(ip) ==
    /\ response' # response
    /\ response'.route = "/api/auth/login"
    /\ response'.ip = ip
    /\ BagCardinality(inflight') >= BagCardinality(inflight)

\* C27: a login request checked while the failure count of its IP is at
\* the limit and the window has not expired is answered 429, is not handed
\* on to validateCredentials and creates no session, whatever its
\* credentials; and the count of an IP goes down only by a successful login
\* of that IP, which deletes the entry, or by the expiry of its window,
\* after which the next check starts a new entry.
C27_RefusedAtLimit ==
    [][\A ip \in DOMAIN loginAttempts :
           /\ (AtLimit(ip) /\ ChecksRequestOf(ip)) =>
                  /\ response'.status = 429
                  /\ inflight' = inflight
                  /\ sessions' = sessions
                  /\ issued' = issued
                  /\ failed' = failed
                  /\ loginAttempts' = loginAttempts
           /\ (\/ ip \notin DOMAIN loginAttempts'
               \/ loginAttempts'[ip].count < loginAttempts[ip].count) =>
                  \/ /\ response'.status = 200
                     /\ response'.ip = ip
                     /\ ip \notin DOMAIN loginAttempts'
                  \/ /\ loginAttempts[ip].resetTime < now
                     /\ loginAttempts'[ip] =
                            [count |-> 0, resetTime |-> now + LOCKOUT_DURATION]]_vars

\* C27 witness: a login request was refused while the count of its IP was
\* at the limit within the window; no session exists.
C27_Witness ==
    /\ AtLimit("1.1.1.1")
    /\ response.route = "/api/auth/login"
    /\ response.status = 429
    /\ inflight = EmptyBag
    /\ sessions = EmptyMap
====
